---- MODULE Spec2Model ----
(***************************************************************************)
(* Model of the Map aggregate of google-timeline-fog-of-war                *)
(* (src/src/domains/map): a fixed 18 x 36 grid of MapSegment cells, the    *)
(* list of TimelineFile objects, addFile / removeFile / queryViewport /    *)
(* getStatistics and the toJson / fromJson serialization.                  *)
(*                                                                         *)
(* Objects.  A TimelinePoint or TimelinePath is a JavaScript object and    *)
(* the Sets of TimelineGroup compare members by reference.  Every object   *)
(* of the model therefore carries its identity in the field oid, so that   *)
(* equality of records is equality of references: two points with equal    *)
(* coordinates and timestamp but different oid are different members.      *)
(* A JavaScript Set iterates in insertion order; it is modelled as a       *)
(* sequence without repetitions.                                           *)
(*                                                                         *)
(* Numbers.  Coordinates are whole degrees.  For whole degrees the IEEE    *)
(* double evaluation of (lat + 90) / 180 * 18 and (lon + 180) / 360 * 36   *)
(* has the same floor and ceiling as the exact quotient, so integer        *)
(* arithmetic is exact for every coordinate used here.  NaN is a value of  *)
(* its own: every comparison with it is false and Math.floor, Math.min     *)
(* and Math.max propagate it.                                              *)
(***************************************************************************)
EXTENDS Integers, Sequences, FiniteSets, TLC

VARIABLES map, last, stored, hookFiles, call

vars == <<map, last, stored, hookFiles, call>>

\* the state outside the Map object: the record kept by TimelineFileRepository,
\* the files state of useTimelineFiles, the uploadFiles call in progress
appVars == <<stored, hookFiles, call>>

(***************************************************************************)
(* Program constants                                                       *)
(***************************************************************************)
LAT_STEP_COUNTS == 18

LON_STEP_COUNTS == 36

(***************************************************************************)
(* Bounds of the model                                                     *)
(***************************************************************************)
\* largest number of files held by the map at one time
MaxFiles == 2

(***************************************************************************)
(* JavaScript values                                                       *)
(***************************************************************************)
\* the number NaN (a sentinel outside every coordinate and index range)
NaN == 1000000

\* the time value of an Invalid Date
InvalidDate == 0 - 1000000000

\* the object slot holding undefined (or null): it has no lat, lon, a or b
Undefined == [oid |-> <<"undefined", 0>>]

IsDefined(x) == x # Undefined

IsNaN(x) == x = NaN

\* a <= b on JavaScript numbers: false as soon as one operand is NaN
NumLE(a, b) == ~IsNaN(a) /\ ~IsNaN(b) /\ a <= b

NumGE(a, b) == NumLE(b, a)

MathMin(a, b) == IF IsNaN(a) \/ IsNaN(b) THEN NaN ELSE IF a <= b THEN a ELSE b

MathMax(a, b) == IF IsNaN(a) \/ IsNaN(b) THEN NaN ELSE IF a >= b THEN a ELSE b

\* Math.floor(num / den) for den > 0
FloorDiv(num, den) == IF IsNaN(num) THEN NaN ELSE num \div den

\* Math.ceil(num / den) for den > 0
CeilDiv(num, den) == IF IsNaN(num) THEN NaN ELSE 0 - ((0 - num) \div den)

NumAdd(a, b) == IF IsNaN(a) \/ IsNaN(b) THEN NaN ELSE a + b

NumMul(a, b) == IF IsNaN(a) \/ IsNaN(b) THEN NaN ELSE a * b

(***************************************************************************)
(* Sequences used as insertion-ordered Sets                                *)
(***************************************************************************)
Range(s) == {s[i] : i \in 1..Len(s)}

\* Set.prototype.add: appends unless the reference is already a member
SetAdd(s, x) == IF x \in Range(s) THEN s ELSE Append(s, x)

\* Set.prototype.delete
SetDelete(s, x) == SelectSeq(s, LAMBDA y : y # x)

RECURSIVE SetFromArray(_, _)
\* new Set filled element by element from an array
SetFromArray(arr, i) ==
    IF i = 0 THEN <<>> ELSE SetAdd(SetFromArray(arr, i - 1), arr[i])

\* position (1-based) of the first occurrence of x in s, 0 when absent
IndexOf(s, x) ==
    IF x \in Range(s) THEN CHOOSE i \in 1..Len(s) : s[i] = x /\ \A j \in 1..(i - 1) : s[j] # x
    ELSE 0

(***************************************************************************)
(* TimelinePoint, TimelinePath, TimelineGroup, TimelineFile                *)
(***************************************************************************)
\* the limits exported by ./consts
MIN_LATITUDE == 0 - 90

MAX_LATITUDE == 90

MIN_LONGITUDE == 0 - 180

MAX_LONGITUDE == 180

\* a < b on JavaScript numbers: false as soon as one operand is NaN
NumLT(a, b) == ~IsNaN(a) /\ ~IsNaN(b) /\ a < b

\* whether the constructor of LocationPoint throws for (lat, lon)
LocationPointThrows(lat, lon) ==
    \/ NumLT(lat, MIN_LATITUDE)
    \/ NumLT(MAX_LATITUDE, lat)
    \/ NumLT(lon, MIN_LONGITUDE)
    \/ NumLT(MAX_LONGITUDE, lon)

\* new TimelinePoint(lat, lon, timestamp); oid is the identity of the new object
TimelinePoint(oid, lat, lon, timestamp) ==
    [oid |-> oid, lat |-> lat, lon |-> lon, timestamp |-> timestamp]

\* new TimelinePath(a, b): holds the two references (the derived length is not modelled)
TimelinePath(oid, a, b) == [oid |-> oid, a |-> a, b |-> b]

\* new TimelineGroup(points, paths) / new TimelineData(points, paths)
TimelineData(points, paths) ==
    [points |-> SetFromArray(points, Len(points)), paths |-> SetFromArray(paths, Len(paths))]

\* MapSegment.createEmpty()
MapSegmentCreateEmpty == [points |-> <<>>, paths |-> <<>>]

\* TimelineGroup.getStatistics()
GroupStatistics(g) == [totalPoints |-> Len(g.points), totalPaths |-> Len(g.paths)]

\* the id argument left out (or an empty string)
NoId == <<"", 0>>

\* generateId(): fresh stands for the clock reading and the random digits
GenerateId(fresh) == <<"generated", fresh>>

\* new TimelineFile(name, data, id): "this.id = id || generateId()"
TimelineFile(name, data, id, fresh) ==
    [id |-> IF id = NoId THEN GenerateId(fresh) ELSE id, name |-> name, data |-> data]

(***************************************************************************)
(* Map                                                                     *)
(***************************************************************************)
GridSize == LAT_STEP_COUNTS * LON_STEP_COUNTS

Cells == 0..(GridSize - 1)

\* Map.createEmpty()
CreateEmpty == [grid |-> [c \in Cells |-> MapSegmentCreateEmpty], files |-> <<>>]

\* variant: the row and the column are not clamped
GetSegmentIndexUnclamped(lat, lon) ==
    NumAdd(NumMul(FloorDiv(NumMul(NumAdd(lat, 90), LAT_STEP_COUNTS), 180), LON_STEP_COUNTS),
           FloorDiv(NumMul(NumAdd(lon, 180), LON_STEP_COUNTS), 360))

\* Map.getSegmentIndex(lat, lon)
GetSegmentIndex(lat, lon) ==
    LET latIdx == FloorDiv(NumMul(NumAdd(lat, 90), LAT_STEP_COUNTS), 180)
        lonIdx == FloorDiv(NumMul(NumAdd(lon, 180), LON_STEP_COUNTS), 360)
        clampedLatIdx == MathMax(0, MathMin(LAT_STEP_COUNTS - 1, latIdx))
        clampedLonIdx == MathMax(0, MathMin(LON_STEP_COUNTS - 1, lonIdx))
    IN  NumAdd(NumMul(clampedLatIdx, LON_STEP_COUNTS), clampedLonIdx)

RECURSIVE IndexPoints(_, _, _)
\* the forEach of addFile over the points, from position i on; grid[NaN] is
\* undefined, so calling addPoints on it throws and ends the loop
IndexPoints(grid, pts, i) ==
    IF i > Len(pts) THEN [grid |-> grid, thrown |-> FALSE]
    ELSE IF ~IsDefined(pts[i]) THEN [grid |-> grid, thrown |-> TRUE]
    ELSE LET segmentIdx == GetSegmentIndex(pts[i].lat, pts[i].lon)
         IN  IF IsNaN(segmentIdx) THEN [grid |-> grid, thrown |-> TRUE]
             ELSE IndexPoints([grid EXCEPT ![segmentIdx].points = SetAdd(@, pts[i])], pts, i + 1)

RECURSIVE IndexPaths(_, _, _)
\* the forEach of addFile over the paths, from position i on
IndexPaths(grid, pths, i) ==
    IF i > Len(pths) THEN [grid |-> grid, thrown |-> FALSE]
    ELSE IF ~IsDefined(pths[i]) \/ ~IsDefined(pths[i].a) \/ ~IsDefined(pths[i].b)
         THEN [grid |-> grid, thrown |-> TRUE]
    ELSE LET startIdx == GetSegmentIndex(pths[i].a.lat, pths[i].a.lon)
             endIdx == GetSegmentIndex(pths[i].b.lat, pths[i].b.lon)
         IN  IF IsNaN(startIdx) THEN [grid |-> grid, thrown |-> TRUE]
             ELSE LET g1 == [grid EXCEPT ![startIdx].paths = SetAdd(@, pths[i])]
                  IN  IF startIdx = endIdx THEN IndexPaths(g1, pths, i + 1)
                      ELSE IF IsNaN(endIdx) THEN [grid |-> g1, thrown |-> TRUE]
                      ELSE IndexPaths([g1 EXCEPT ![endIdx].paths = SetAdd(@, pths[i])], pths, i + 1)

\* Map.addFile(file): the map afterwards and whether the call threw
AddFileOp(m, file) ==
    LET files1 == Append(m.files, file)
        r1 == IndexPoints(m.grid, file.data.points, 1)
        r2 == IF r1.thrown THEN r1 ELSE IndexPaths(r1.grid, file.data.paths, 1)
    IN  [map |-> [grid |-> r2.grid, files |-> files1], thrown |-> r2.thrown]

RECURSIVE UnindexPointsUnguarded(_, _, _)
\* variant: the forEach over the points without the test for undefined
UnindexPointsUnguarded(grid, pts, i) ==
    IF i > Len(pts) THEN [grid |-> grid, thrown |-> FALSE]
    ELSE IF ~IsDefined(pts[i]) THEN [grid |-> grid, thrown |-> TRUE]
    ELSE LET segmentIdx == GetSegmentIndex(pts[i].lat, pts[i].lon)
         IN  IF IsNaN(segmentIdx) THEN [grid |-> grid, thrown |-> TRUE]
             ELSE UnindexPointsUnguarded(
                    [grid EXCEPT ![segmentIdx].points = SetDelete(@, pts[i])], pts, i + 1)

RECURSIVE UnindexPoints(_, _, _)
\* the forEach of removeFile over the points: undefined entries are skipped
UnindexPoints(grid, pts, i) ==
    IF i > Len(pts) THEN [grid |-> grid, thrown |-> FALSE]
    ELSE IF ~IsDefined(pts[i]) THEN UnindexPoints(grid, pts, i + 1)
    ELSE LET segmentIdx == GetSegmentIndex(pts[i].lat, pts[i].lon)
         IN  IF IsNaN(segmentIdx) THEN [grid |-> grid, thrown |-> TRUE]
             ELSE UnindexPoints([grid EXCEPT ![segmentIdx].points = SetDelete(@, pts[i])], pts, i + 1)

RECURSIVE UnindexPaths(_, _, _)
\* the forEach of removeFile over the paths: invalid paths are skipped
UnindexPaths(grid, pths, i) ==
    IF i > Len(pths) THEN [grid |-> grid, thrown |-> FALSE]
    ELSE IF ~IsDefined(pths[i]) \/ ~IsDefined(pths[i].a) \/ ~IsDefined(pths[i].b)
         THEN UnindexPaths(grid, pths, i + 1)
    ELSE LET startIdx == GetSegmentIndex(pths[i].a.lat, pths[i].a.lon)
             endIdx == GetSegmentIndex(pths[i].b.lat, pths[i].b.lon)
         IN  IF IsNaN(startIdx) THEN [grid |-> grid, thrown |-> TRUE]
             ELSE LET g1 == [grid EXCEPT ![startIdx].paths = SetDelete(@, pths[i])]
                  IN  IF startIdx = endIdx THEN UnindexPaths(g1, pths, i + 1)
                      ELSE IF IsNaN(endIdx) THEN [grid |-> g1, thrown |-> TRUE]
                      ELSE UnindexPaths([g1 EXCEPT ![endIdx].paths = SetDelete(@, pths[i])], pths, i + 1)

\* variant: a miss answers the last position, as an unguarded splice(-1, 1) would use
FindIndexByIdOrLast(files, id) ==
    IF \E i \in 1..Len(files) : files[i].id = id
    THEN CHOOSE i \in 1..Len(files) : files[i].id = id /\ \A j \in 1..(i - 1) : files[j].id # id
    ELSE Len(files)

\* this.files.findIndex(f => f.id === id), 1-based, 0 for -1
FindIndexById(files, id) ==
    IF \E i \in 1..Len(files) : files[i].id = id
    THEN CHOOSE i \in 1..Len(files) : files[i].id = id /\ \A j \in 1..(i - 1) : files[j].id # id
    ELSE 0

\* this.files.splice(index, 1)
Splice(files, index) == [i \in 1..(Len(files) - 1) |-> IF i < index THEN files[i] ELSE files[i + 1]]

\* variant: the points and paths of the passed object are unindexed, not those
\* of the stored file
RemoveFileOpByReference(m, file) ==
    LET index == FindIndexById(m.files, file.id)
    IN  IF index = 0 THEN [map |-> m, thrown |-> FALSE]
        ELSE LET files1 == Splice(m.files, index)
                 r1 == UnindexPoints(m.grid, file.data.points, 1)
                 r2 == IF r1.thrown THEN r1 ELSE UnindexPaths(r1.grid, file.data.paths, 1)
             IN  [map |-> [grid |-> r2.grid, files |-> files1], thrown |-> r2.thrown]

\* Map.removeFile(file): the map afterwards and whether the call threw
RemoveFileOp(m, file) ==
    LET index == FindIndexById(m.files, file.id)
    IN  IF index = 0 THEN [map |-> m, thrown |-> FALSE]
        ELSE LET fileToRemove == m.files[index]
                 files1 == Splice(m.files, index)
                 r1 == UnindexPoints(m.grid, fileToRemove.data.points, 1)
                 r2 == IF r1.thrown THEN r1 ELSE UnindexPaths(r1.grid, fileToRemove.data.paths, 1)
             IN  [map |-> [grid |-> r2.grid, files |-> files1], thrown |-> r2.thrown]

RECURSIVE SumStatistics(_, _)
\* the forEach of getStatistics over the first n files
SumStatistics(files, n) ==
    IF n = 0 THEN [pointsCount |-> 0, pathsCount |-> 0]
    ELSE LET acc == SumStatistics(files, n - 1)
             stats == GroupStatistics(files[n].data)
         IN  [pointsCount |-> acc.pointsCount + stats.totalPoints,
              pathsCount |-> acc.pathsCount + stats.totalPaths]

\* variant: the members of the grid cells are counted, not the files' own sets
GetStatisticsOfGrid(m) ==
    [pointsCount |-> Cardinality(UNION {Range(m.grid[c].points) : c \in Cells}),
     pathsCount |-> Cardinality(UNION {Range(m.grid[c].paths) : c \in Cells})]

\* Map.getStatistics()
GetStatistics(m) == SumStatistics(m.files, Len(m.files))

\* Map.getAllFiles()
GetAllFiles(m) == m.files

\* new MapBounds(a, b) of two LocationPoints
MapBounds(alat, alon, blat, blon) ==
    [a |-> [lat |-> alat, lon |-> alon], b |-> [lat |-> blat, lon |-> blon]]

\* variant: only the longitude is tested
InBoundsLonOnly(p, minLat, maxLat, minLon, maxLon) ==
    /\ NumGE(p.lon, minLon)
    /\ NumLE(p.lon, maxLon)

\* the test "p.lat >= minLat && p.lat <= maxLat && p.lon >= minLon && p.lon <= maxLon"
InBounds(p, minLat, maxLat, minLon, maxLon) ==
    /\ NumGE(p.lat, minLat)
    /\ NumLE(p.lat, maxLat)
    /\ NumGE(p.lon, minLon)
    /\ NumLE(p.lon, maxLon)

RECURSIVE CollectPoints(_, _, _, _)
\* segment.getPoints().forEach of queryViewport, from position i on
CollectPoints(acc, pts, i, r) ==
    IF i > Len(pts) THEN acc
    ELSE IF ~IsDefined(pts[i]) THEN [acc EXCEPT !.thrown = TRUE]
    ELSE IF InBounds(pts[i], r.minLat, r.maxLat, r.minLon, r.maxLon)
         THEN CollectPoints([acc EXCEPT !.points = SetAdd(@, pts[i])], pts, i + 1, r)
         ELSE CollectPoints(acc, pts, i + 1, r)

RECURSIVE CollectPaths(_, _, _, _)
\* segment.getPaths().forEach of queryViewport, from position i on
CollectPaths(acc, pths, i, r) ==
    IF i > Len(pths) THEN acc
    ELSE IF ~IsDefined(pths[i]) \/ ~IsDefined(pths[i].a) \/ ~IsDefined(pths[i].b)
         THEN [acc EXCEPT !.thrown = TRUE]
    ELSE LET aInBounds == InBounds(pths[i].a, r.minLat, r.maxLat, r.minLon, r.maxLon)
             bInBounds == InBounds(pths[i].b, r.minLat, r.maxLat, r.minLon, r.maxLon)
         IN  IF aInBounds \/ bInBounds
             THEN CollectPaths([acc EXCEPT !.paths = SetAdd(@, pths[i])], pths, i + 1, r)
             ELSE CollectPaths(acc, pths, i + 1, r)

\* the body of the two nested loops of queryViewport for one grid cell
QueryCell(acc, segment, r) ==
    IF acc.thrown THEN acc
    ELSE LET acc1 == CollectPoints(acc, segment.points, 1, r)
         IN  IF acc1.thrown THEN acc1 ELSE CollectPaths(acc1, segment.paths, 1, r)

\* the grid indices in increasing order
CellSeq == [k \in 1..GridSize |-> k - 1]

\* whether the segment at grid index c has a member
NonEmpty(grid, c) == Len(grid[c].points) > 0 \/ Len(grid[c].paths) > 0

\* the cells visited by "for (lat = startLatIdx; lat < endLatIdx; lat++)
\* for (lon = startLonIdx; lon < endLonIdx; lon++)" at index lat * 36 + lon, in
\* the order of the visit; the loop body does nothing for an empty segment, so
\* only the segments with a member are listed
ScannedCells(grid, r) ==
    SelectSeq(CellSeq,
              LAMBDA c : /\ r.startLatIdx <= c \div LON_STEP_COUNTS
                         /\ c \div LON_STEP_COUNTS < r.endLatIdx
                         /\ r.startLonIdx <= c % LON_STEP_COUNTS
                         /\ c % LON_STEP_COUNTS < r.endLonIdx
                         /\ NonEmpty(grid, c))

RECURSIVE QueryLoop(_, _, _, _, _)
\* the two nested loops of queryViewport over the cells to visit, from position k on
QueryLoop(acc, grid, cells, k, r) ==
    IF k > Len(cells) THEN acc
    ELSE QueryLoop(QueryCell(acc, grid[cells[k]], r), grid, cells, k + 1, r)

\* the ranges queryViewport computes from the bounds
ViewportRanges(bounds) ==
    LET minLat == MathMin(bounds.a.lat, bounds.b.lat)
        maxLat == MathMax(bounds.a.lat, bounds.b.lat)
        minLon == MathMin(bounds.a.lon, bounds.b.lon)
        maxLon == MathMax(bounds.a.lon, bounds.b.lon)
        minLatIdx == FloorDiv(NumMul(NumAdd(minLat, 90), LAT_STEP_COUNTS), 180)
        maxLatIdx == CeilDiv(NumMul(NumAdd(maxLat, 90), LAT_STEP_COUNTS), 180)
        minLonIdx == FloorDiv(NumMul(NumAdd(minLon, 180), LON_STEP_COUNTS), 360)
        maxLonIdx == CeilDiv(NumMul(NumAdd(maxLon, 180), LON_STEP_COUNTS), 360)
    IN  [minLat |-> minLat, maxLat |-> maxLat, minLon |-> minLon, maxLon |-> maxLon,
         startLatIdx |-> MathMax(0, minLatIdx), endLatIdx |-> MathMin(LAT_STEP_COUNTS, maxLatIdx),
         startLonIdx |-> MathMax(0, minLonIdx), endLonIdx |-> MathMin(LON_STEP_COUNTS, maxLonIdx)]

\* Map.queryViewport(bounds): the two result arrays and whether the call threw
QueryViewport(m, bounds) ==
    LET r == ViewportRanges(bounds)
    IN  IF IsNaN(r.startLatIdx) \/ IsNaN(r.endLatIdx) \/ IsNaN(r.startLonIdx) \/ IsNaN(r.endLonIdx)
        THEN [points |-> <<>>, paths |-> <<>>, thrown |-> FALSE]
        ELSE QueryLoop([points |-> <<>>, paths |-> <<>>, thrown |-> FALSE],
                       m.grid, ScannedCells(m.grid, r), 1, r)

(***************************************************************************)
(* Serialization: Map.toJson and Map.fromJson                              *)
(***************************************************************************)
\* Date.prototype.toISOString(): the text carries whole seconds and the three
\* millisecond digits (callers check for the Invalid Date first, on which the
\* method throws a RangeError)
ToISOString(timestamp) == [sec |-> timestamp \div 1000, ms |-> timestamp % 1000]

\* new Date(isoString)
ParseDate(iso) == iso.sec * 1000 + iso.ms

\* arr[idx] of a JavaScript array with a 0-based index: undefined outside it
ArrGet(arr, idx) == IF idx \in 0..(Len(arr) - 1) THEN arr[idx + 1] ELSE Undefined

\* Map.get of pointToIndex / pathToIndex: objs[k+1] is the object given index k
ToIndex(objs, x) == IndexOf(objs, x) - 1

\* the indices of the defined members of s that have an index
MapToIndices(s, objs) ==
    LET kept == SelectSeq(s, LAMBDA x : IsDefined(x) /\ x \in Range(objs))
    IN  [i \in 1..Len(kept) |-> ToIndex(objs, kept[i])]

\* the grid indices, in order, of the segments that have a member: the loops
\* of toJson over this.grid do nothing for the others
NonEmptyCells(grid) == SelectSeq(CellSeq, LAMBDA c : NonEmpty(grid, c))

RECURSIVE CollectUniquePoints(_, _, _, _, _)
\* first loop of toJson: every point of every segment gets an index when first
\* seen; k is the position in cells, i the position in the segment
CollectUniquePoints(st, grid, cells, k, i) ==
    IF st.thrown \/ k > Len(cells) THEN st
    ELSE IF i > Len(grid[cells[k]].points) THEN CollectUniquePoints(st, grid, cells, k + 1, 1)
    ELSE LET point == grid[cells[k]].points[i]
         IN  IF ~IsDefined(point) \/ point \in Range(st.pointObjs)
             THEN CollectUniquePoints(st, grid, cells, k, i + 1)
             ELSE IF point.timestamp = InvalidDate THEN [st EXCEPT !.thrown = TRUE]
             ELSE CollectUniquePoints([st EXCEPT !.pointObjs = Append(@, point)], grid, cells, k, i + 1)

\* "if (!pointToIndex.has(p)) { pointToIndex.set(p, pointsArray.length); pointsArray.push(...) }"
EnsurePointIndexed(st, p) ==
    IF st.thrown \/ p \in Range(st.pointObjs) THEN st
    ELSE IF p.timestamp = InvalidDate THEN [st EXCEPT !.thrown = TRUE]
    ELSE [st EXCEPT !.pointObjs = Append(@, p)]

RECURSIVE CollectUniquePaths(_, _, _, _, _)
\* second loop of toJson: every path of every segment gets an index when first
\* seen, after its endpoints have got theirs
CollectUniquePaths(st, grid, cells, k, i) ==
    IF st.thrown \/ k > Len(cells) THEN st
    ELSE IF i > Len(grid[cells[k]].paths) THEN CollectUniquePaths(st, grid, cells, k + 1, 1)
    ELSE LET path == grid[cells[k]].paths[i]
         IN  IF ~IsDefined(path) \/ ~IsDefined(path.a) \/ ~IsDefined(path.b)
             THEN CollectUniquePaths(st, grid, cells, k, i + 1)
             ELSE IF path \in Range(st.pathObjs) THEN CollectUniquePaths(st, grid, cells, k, i + 1)
             ELSE LET st2 == EnsurePointIndexed(EnsurePointIndexed(st, path.a), path.b)
                  IN  IF st2.thrown THEN st2
                      ELSE CollectUniquePaths([st2 EXCEPT !.pathObjs = Append(@, path)],
                                              grid, cells, k, i + 1)

\* Map.toJson(): the serialized object and whether the call threw
ToJson(m) ==
    LET cells == NonEmptyCells(m.grid)
        st1 == CollectUniquePoints([pointObjs |-> <<>>, pathObjs |-> <<>>, thrown |-> FALSE],
                                   m.grid, cells, 1, 1)
        st == CollectUniquePaths(st1, m.grid, cells, 1, 1)
    IN  IF st.thrown THEN [thrown |-> TRUE]
        ELSE [thrown |-> FALSE,
              json |->
                [latStepCounts |-> LAT_STEP_COUNTS,
                 lonStepCounts |-> LON_STEP_COUNTS,
                 points |-> [k \in 1..Len(st.pointObjs) |->
                               [lat |-> st.pointObjs[k].lat,
                                lon |-> st.pointObjs[k].lon,
                                timestamp |-> ToISOString(st.pointObjs[k].timestamp)]],
                 paths |-> [k \in 1..Len(st.pathObjs) |->
                              [a |-> ToIndex(st.pointObjs, st.pathObjs[k].a),
                               b |-> ToIndex(st.pointObjs, st.pathObjs[k].b)]],
                 segments |-> [k \in 1..Len(cells) |->
                                 [index |-> cells[k],
                                  pointIndices |-> MapToIndices(m.grid[cells[k]].points, st.pointObjs),
                                  pathIndices |-> MapToIndices(m.grid[cells[k]].paths, st.pathObjs)]],
                 files |-> [k \in 1..Len(m.files) |->
                              [id |-> m.files[k].id,
                               name |-> m.files[k].name,
                               pointIndices |-> MapToIndices(m.files[k].data.points, st.pointObjs),
                               pathIndices |-> MapToIndices(m.files[k].data.paths, st.pathObjs)]]]]

RECURSIVE AddAll(_, _, _)
\* group.addPoints(...items) / group.addPaths(...items), from position i on
AddAll(set, items, i) ==
    IF i > Len(items) THEN set ELSE AddAll(SetAdd(set, items[i]), items, i + 1)

\* variant: every member of a segment is an object of its own
SegmentMembersCopied(indices, objs) ==
    [k \in 1..Len(indices) |->
        LET x == ArrGet(objs, indices[k])
        IN  IF IsDefined(x) THEN [x EXCEPT !.oid = <<"copy", indices[k]>>] ELSE x]

\* segmentData.pointIndices.map(idx => points[idx]), and the same for paths
SegmentMembers(indices, objs) == [k \in 1..Len(indices) |-> ArrGet(objs, indices[k])]

RECURSIVE RestoreSegments(_, _, _, _, _)
\* data.segments.forEach of fromJson: grid[segmentData.index] is undefined for
\* an index outside the grid, and adding to it throws
RestoreSegments(grid, segs, i, points, paths) ==
    IF i > Len(segs) THEN [grid |-> grid, thrown |-> FALSE]
    ELSE LET sd == segs[i]
             segmentPoints == SegmentMembers(sd.pointIndices, points)
             segmentPaths == SegmentMembers(sd.pathIndices, paths)
         IN  IF Len(sd.pointIndices) = 0 /\ Len(sd.pathIndices) = 0
             THEN RestoreSegments(grid, segs, i + 1, points, paths)
             ELSE IF sd.index \notin Cells THEN [grid |-> grid, thrown |-> TRUE]
             ELSE RestoreSegments(
                    [grid EXCEPT ![sd.index] =
                        [points |-> AddAll(@.points, segmentPoints, 1),
                         paths |-> AddAll(@.paths, segmentPaths, 1)]],
                    segs, i + 1, points, paths)

\* variant: the reindexing branch stops after one file
ReindexOneFile(grid, files, i) ==
    IF i > Len(files) THEN [grid |-> grid, thrown |-> FALSE]
    ELSE LET r1 == IndexPoints(grid, files[i].data.points, 1)
         IN  IF r1.thrown THEN r1 ELSE IndexPaths(r1.grid, files[i].data.paths, 1)

RECURSIVE ReindexFiles(_, _, _)
\* files.forEach of the reindexing branch of fromJson
ReindexFiles(grid, files, i) ==
    IF i > Len(files) THEN [grid |-> grid, thrown |-> FALSE]
    ELSE LET r1 == IndexPoints(grid, files[i].data.points, 1)
             r2 == IF r1.thrown THEN r1 ELSE IndexPaths(r1.grid, files[i].data.paths, 1)
         IN  IF r2.thrown THEN r2 ELSE ReindexFiles(r2.grid, files, i + 1)

\* the entries of data.paths whose two endpoint indices have a point
ValidPathData(data, points) ==
    SelectSeq(data.paths, LAMBDA pd : IsDefined(ArrGet(points, pd.a)) /\ IsDefined(ArrGet(points, pd.b)))

\* variant: the stored id is not handed to the TimelineFile constructor
RestoreFileWithoutId(fileData, points, paths, fresh) ==
    LET filePoints == [j \in 1..Len(fileData.pointIndices) |-> ArrGet(points, fileData.pointIndices[j])]
        filePaths == [j \in 1..Len(fileData.pathIndices) |-> ArrGet(paths, fileData.pathIndices[j])]
    IN  TimelineFile(fileData.name, TimelineData(filePoints, filePaths), NoId, fresh)

\* the body of data.files.forEach of fromJson; fresh is the value generateId
\* would draw
RestoreFile(fileData, points, paths, fresh) ==
    LET filePoints == [j \in 1..Len(fileData.pointIndices) |-> ArrGet(points, fileData.pointIndices[j])]
        filePaths == [j \in 1..Len(fileData.pathIndices) |-> ArrGet(paths, fileData.pathIndices[j])]
    IN  TimelineFile(fileData.name, TimelineData(filePoints, filePaths), fileData.id, fresh)

\* Map.fromJson(data): the new map and whether the call threw.  The objects it
\* creates are new ones: the k-th point pushed has identity <<"r", k>>, and so
\* has the k-th path pushed.
FromJson(data) ==
    LET gridDimensionsMatch ==
            data.latStepCounts = LAT_STEP_COUNTS /\ data.lonStepCounts = LON_STEP_COUNTS
        points == [k \in 1..Len(data.points) |->
                     TimelinePoint(<<"r", k - 1>>, data.points[k].lat, data.points[k].lon,
                                   ParseDate(data.points[k].timestamp))]
        pointThrows == \E k \in 1..Len(data.points) :
                           LocationPointThrows(data.points[k].lat, data.points[k].lon)
        valid == ValidPathData(data, points)
        paths == [k \in 1..Len(valid) |->
                    TimelinePath(<<"r", k - 1>>, ArrGet(points, valid[k].a), ArrGet(points, valid[k].b))]
        files == [k \in 1..Len(data.files) |-> RestoreFile(data.files[k], points, paths, k)]
        r == IF gridDimensionsMatch
             THEN RestoreSegments(CreateEmpty.grid, data.segments, 1, points, paths)
             ELSE ReindexFiles(CreateEmpty.grid, files, 1)
    IN  IF pointThrows THEN [thrown |-> TRUE]
        ELSE IF r.thrown THEN [thrown |-> TRUE]
        ELSE [thrown |-> FALSE, map |-> [grid |-> r.grid, files |-> files]]

\* Map.fromJson(map.toJson()): one persistence round trip
RoundTripOp(m) ==
    LET t == ToJson(m)
    IN  IF t.thrown THEN [thrown |-> TRUE] ELSE FromJson(t.json)

(***************************************************************************)
(* The files handed to the map.  DataA has the shape the timeline parser   *)
(* produces (the endpoints of a path are objects of their own, not members *)
(* of the point list); DataB has the shape of the unit tests (a path       *)
(* between two of the file's own points).  File1 and File2 are built on    *)
(* the same data, as the tests of Map do, and carry the same name.         *)
(***************************************************************************)
\* a point created outside the map, with identity <<"u", k>>
UserPoint(k, lat, lon, timestamp) == TimelinePoint(<<"u", k>>, lat, lon, timestamp)

DataA ==
    TimelineData(
        <<UserPoint(1, 47, 0 - 122, 1000), UserPoint(2, 45, 0 - 123, 2500)>>,
        <<TimelinePath(<<"u", 1>>, UserPoint(3, 47, 0 - 122, 1000), UserPoint(4, 52, 0 - 118, 2500))>>)

DataB ==
    TimelineData(
        <<UserPoint(5, 10, 20, 3000), UserPoint(6, 47, 0 - 122, 1000), UserPoint(7, 90, 180, 4001),
          UserPoint(8, 0 - 33, 151, 0 - 1500)>>,
        <<TimelinePath(<<"u", 2>>, UserPoint(5, 10, 20, 3000), UserPoint(6, 47, 0 - 122, 1000))>>)

File1 == TimelineFile("data.json", DataA, <<"id", 1>>, 1)

File2 == TimelineFile("data.json", DataA, <<"id", 2>>, 2)

File3 == TimelineFile("other.json", DataB, <<"id", 3>>, 3)

UserFiles == {File1, File2, File3}

\* bounds rectangles asked of queryViewport, as (a.lat, a.lon, b.lat, b.lon)
QueryBounds ==
    { MapBounds(0 - 90, 0 - 180, 90, 180),
      MapBounds(48, 0 - 121, 46, 0 - 123),
      MapBounds(50, 0 - 120, 60, 0 - 110),
      MapBounds(0, 10, 10, 20),
      MapBounds(10, 20, 20, 30),
      MapBounds(80, 170, 90, 180) }

StoredIds(m) == {m.files[i].id : i \in 1..Len(m.files)}

(***************************************************************************)
(* State: map is the Map object; last records the latest call, its         *)
(* argument and its outcome.                                               *)
(***************************************************************************)
\* no record in the object store
NoRecord == [present |-> FALSE]

\* no uploadFiles call has been made
NoCall == [phase |-> "idle"]

Init ==
    /\ map = CreateEmpty
    /\ last = [op |-> "createEmpty"]
    /\ stored = NoRecord
    /\ hookFiles = <<>>
    /\ call = NoCall

\* map.addFile(f) for a file whose id is not in use
AddFile(f) ==
    /\ Len(map.files) < MaxFiles
    /\ f.id \notin StoredIds(map)
    /\ LET r == AddFileOp(map, f)
       IN  /\ map' = r.map
           /\ last' = [op |-> "addFile", id |-> f.id, thrown |-> r.thrown,
                       statsBefore |-> GetStatistics(map)]
           /\ UNCHANGED appVars

\* map.removeFile(f): f is the caller's object, the stored file may be another
RemoveFile(f) ==
    LET r == RemoveFileOp(map, f)
        found == f.id \in StoredIds(map)
    IN  /\ map' = r.map
        /\ last' = [op |-> "removeFile", id |-> f.id, thrown |-> r.thrown,
                    found |-> found,
                    removed |-> IF found THEN CHOOSE g \in Range(map.files) : g.id = f.id ELSE f,
                    undoesAdd |-> last.op = "addFile" /\ last.id = f.id,
                    statsBefore |-> IF last.op = "addFile" THEN last.statsBefore
                                    ELSE GetStatistics(map)]
        /\ UNCHANGED appVars

\* map = Map.fromJson(map.toJson()); a throw leaves the old map in place
RoundTrip ==
    LET r == RoundTripOp(map)
    IN  /\ map' = IF r.thrown THEN map ELSE r.map
        /\ last' = [op |-> "roundTrip", thrown |-> r.thrown]
        /\ UNCHANGED appVars

\* map.queryViewport(b)
Query(b) ==
    /\ map' = map
    /\ last' = [op |-> "queryViewport", bounds |-> b, result |-> QueryViewport(map, b)]
    /\ UNCHANGED appVars

Next ==
    \/ \E f \in UserFiles : AddFile(f)
    \/ \E f \in UserFiles : RemoveFile(f)
    \/ RoundTrip
    \/ \E b \in QueryBounds : Query(b)

Spec == Init /\ [][Next]_vars

(***************************************************************************)
(* Vocabulary of the properties                                            *)
(***************************************************************************)
\* number of consecutive toJson / fromJson round trips looked at
Cycles == 5

\* the grid cells whose point set holds the object p
CellsHoldingPoint(grid, p) == {c \in Cells : p \in Range(grid[c].points)}

\* the grid cells whose path set holds the object q
CellsHoldingPath(grid, q) == {c \in Cells : q \in Range(grid[c].paths)}

\* the point objects held by some grid cell
IndexedPoints(m) == UNION {Range(m.grid[c].points) : c \in Range(NonEmptyCells(m.grid))}

\* the path objects held by some grid cell
IndexedPaths(m) == UNION {Range(m.grid[c].paths) : c \in Range(NonEmptyCells(m.grid))}

\* the cell a point object belongs to by its coordinates
CellOf(p) == GetSegmentIndex(p.lat, p.lon)

\* a point or a path without its identity: coordinates and timestamp only
PointValue(p) == [lat |-> p.lat, lon |-> p.lon, timestamp |-> p.timestamp]

PathValue(q) == [a |-> PointValue(q.a), b |-> PointValue(q.b)]

\* two arrays hold the same values the same number of times
SameBag(s, t) ==
    /\ Len(s) = Len(t)
    /\ \A v \in Range(s) \cup Range(t) :
          Cardinality({i \in 1..Len(s) : s[i] = v}) = Cardinality({i \in 1..Len(t) : t[i] = v})

\* the result of queryViewport compared by coordinates and timestamp
SameQueryResult(m1, m2, b) ==
    LET q1 == QueryViewport(m1, b)
        q2 == QueryViewport(m2, b)
    IN  /\ ~q1.thrown /\ ~q2.thrown
        /\ SameBag([i \in 1..Len(q1.points) |-> PointValue(q1.points[i])],
                   [i \in 1..Len(q2.points) |-> PointValue(q2.points[i])])
        /\ SameBag([i \in 1..Len(q1.paths) |-> PathValue(q1.paths[i])],
                   [i \in 1..Len(q2.paths) |-> PathValue(q2.paths[i])])

RECURSIVE RoundTrips(_, _)
\* n consecutive round trips starting from m
RoundTrips(m, n) ==
    IF n = 0 THEN [thrown |-> FALSE, map |-> m]
    ELSE LET r == RoundTrips(m, n - 1)
         IN  IF r.thrown THEN r ELSE RoundTripOp(r.map)

\* the ids of the files of m, in order
FileIds(m) == [i \in 1..Len(m.files) |-> m.files[i].id]

\* p lies in the rectangle of b, its edges included / excluded
InClosedRect(p, b) ==
    LET r == ViewportRanges(b)
    IN  r.minLat <= p.lat /\ p.lat <= r.maxLat /\ r.minLon <= p.lon /\ p.lon <= r.maxLon

InOpenRect(p, b) ==
    LET r == ViewportRanges(b)
    IN  r.minLat < p.lat /\ p.lat < r.maxLat /\ r.minLon < p.lon /\ p.lon < r.maxLon

\* no value occurs twice in the array
NoDuplicates(s) == \A i, j \in 1..Len(s) : s[i] = s[j] => i = j

(***************************************************************************)
(* C1                                                                      *)
(***************************************************************************)
\* C1: after any sequence of addFile and removeFile calls, every point of
\* every file of getAllFiles() is a member of the cell of its coordinates and
\* of no other cell, and every path is a member of the cells of its two
\* endpoints and of no other cell.
C1_FileDataIndexed ==
    \A i \in 1..Len(map.files) :
        /\ \A p \in Range(map.files[i].data.points) :
              CellsHoldingPoint(map.grid, p) = {CellOf(p)}
        /\ \A q \in Range(map.files[i].data.paths) :
              CellsHoldingPath(map.grid, q) = {CellOf(q.a), CellOf(q.b)}

(***************************************************************************)
(* C2                                                                      *)
(***************************************************************************)
\* C2: for every reachable map and every number of round trips up to Cycles,
\* the restored map has the same getStatistics(), the same number of files
\* and, for every bounds rectangle, the same queryViewport result by value.
C2_RoundTripPreserves ==
    \A n \in 1..Cycles :
        LET r == RoundTrips(map, n)
        IN  /\ ~r.thrown
            /\ GetStatistics(r.map) = GetStatistics(map)
            /\ Len(GetAllFiles(r.map)) = Len(GetAllFiles(map))
            /\ \A b \in QueryBounds : SameQueryResult(r.map, map, b)

(***************************************************************************)
(* C3                                                                      *)
(***************************************************************************)
\* C3: a removeFile step that removes a stored file leaves every stored file
\* with another id in the file list, leaves each of that file's points and
\* paths in every cell that held it, and queryViewport still returns them.
C3_OtherFileUntouched ==
    [][(last'.op = "removeFile" /\ last'.found) =>
        \A j \in 1..Len(map.files) :
            map.files[j].id # last'.id =>
                /\ map.files[j] \in Range(map'.files)
                /\ \A c \in Range(NonEmptyCells(map.grid)) :
                      /\ \A p \in Range(map.files[j].data.points) :
                            p \in Range(map.grid[c].points) => p \in Range(map'.grid[c].points)
                      /\ \A q \in Range(map.files[j].data.paths) :
                            q \in Range(map.grid[c].paths) => q \in Range(map'.grid[c].paths)
                /\ \A b \in QueryBounds :
                      /\ Range(QueryViewport(map, b).points) \cap Range(map.files[j].data.points)
                            \subseteq Range(QueryViewport(map', b).points)
                      /\ Range(QueryViewport(map, b).paths) \cap Range(map.files[j].data.paths)
                            \subseteq Range(QueryViewport(map', b).paths)]_vars

(***************************************************************************)
(* C4                                                                      *)
(***************************************************************************)
\* the object x was created by fromJson
IsRestored(x) == x.oid[1] = "r"

\* C4: after removeFile(file) found a stored file with the id of file, the
\* file it removed is the stored one with that id, no cell holds any point or
\* path of the stored file's data, and no file with that id is listed.
C4_RemovesStoredFileById ==
    (last.op = "removeFile" /\ last.found) =>
        /\ last.removed.id = last.id
        /\ ~last.thrown
        /\ last.id \notin StoredIds(map)
        /\ \A p \in Range(last.removed.data.points) : CellsHoldingPoint(map.grid, p) = {}
        /\ \A q \in Range(last.removed.data.paths) : CellsHoldingPath(map.grid, q) = {}

\* removeFile was handed a caller's object while the stored file with that id
\* was one rebuilt by fromJson, holding points and a path that spans two cells
C4_Witness ==
    /\ last.op = "removeFile"
    /\ last.found
    /\ \E f \in UserFiles : f.id = last.id /\ f # last.removed
    /\ \E p \in Range(last.removed.data.points) : IsRestored(p)
    /\ \E q \in Range(last.removed.data.paths) : CellOf(q.a) # CellOf(q.b)

(***************************************************************************)
(* C5                                                                      *)
(***************************************************************************)
\* C5 as stated: queryViewport(bounds) returns exactly the indexed points
\* strictly inside the rectangle and exactly the indexed paths with at least
\* one endpoint strictly inside it, each at most once.
C5_ExactlyStrictlyInside ==
    (last.op = "queryViewport") =>
        /\ Range(last.result.points) = {p \in IndexedPoints(map) : InOpenRect(p, last.bounds)}
        /\ Range(last.result.paths) =
              {q \in IndexedPaths(map) : InOpenRect(q.a, last.bounds) \/ InOpenRect(q.b, last.bounds)}
        /\ NoDuplicates(last.result.points)
        /\ NoDuplicates(last.result.paths)

\* C5 amended: queryViewport(bounds) returns every indexed point strictly
\* inside the rectangle and only indexed points inside it or on its edge,
\* every indexed path with an endpoint strictly inside and only indexed paths
\* with an endpoint inside or on the edge, each at most once.
C5_ViewportResult ==
    (last.op = "queryViewport") =>
        /\ ~last.result.thrown
        /\ {p \in IndexedPoints(map) : InOpenRect(p, last.bounds)} \subseteq Range(last.result.points)
        /\ Range(last.result.points) \subseteq
              {p \in IndexedPoints(map) : InClosedRect(p, last.bounds)}
        /\ {q \in IndexedPaths(map) : InOpenRect(q.a, last.bounds) \/ InOpenRect(q.b, last.bounds)}
              \subseteq Range(last.result.paths)
        /\ Range(last.result.paths) \subseteq
              {q \in IndexedPaths(map) : InClosedRect(q.a, last.bounds) \/ InClosedRect(q.b, last.bounds)}
        /\ NoDuplicates(last.result.points)
        /\ NoDuplicates(last.result.paths)

\* a query returned a point lying on an edge of the rectangle, left out a point
\* held by the map, and returned a path held by two cells, one of them the cell
\* of an endpoint outside the rectangle
C5_Witness ==
    /\ last.op = "queryViewport"
    /\ \E p \in Range(last.result.points) : ~InOpenRect(p, last.bounds)
    /\ \E p \in IndexedPoints(map) : p \notin Range(last.result.points)
    /\ \E q \in Range(last.result.paths) :
          /\ CellOf(q.a) # CellOf(q.b)
          /\ ~InClosedRect(q.a, last.bounds) \/ ~InClosedRect(q.b, last.bounds)

(***************************************************************************)
(* C6                                                                      *)
(***************************************************************************)
\* C6: queryViewport(bounds) returns every indexed path one of whose endpoints
\* the rectangle contains, wherever the other endpoint lies.
C6_PathWithEndpointInBounds ==
    (last.op = "queryViewport") =>
        \A q \in IndexedPaths(map) :
            (InClosedRect(q.a, last.bounds) \/ InClosedRect(q.b, last.bounds)) =>
                q \in Range(last.result.paths)

(***************************************************************************)
(* C7                                                                      *)
(***************************************************************************)
\* the members of the first n files, each tagged with the position of its file
TaggedPoints(files, n) ==
    UNION {{<<i, p>> : p \in Range(files[i].data.points)} : i \in 1..n}

TaggedPaths(files, n) ==
    UNION {{<<i, q>> : q \in Range(files[i].data.paths)} : i \in 1..n}

\* C7: getStatistics() is the sum over the listed files of the sizes of their
\* own point and path sets; addFile adds the sizes of the new file, and
\* removeFile(f) right after addFile(f) brings back the value before the add.
C7_StatisticsSumOverFiles ==
    /\ GetStatistics(map) =
          [pointsCount |-> Cardinality(TaggedPoints(map.files, Len(map.files))),
           pathsCount |-> Cardinality(TaggedPaths(map.files, Len(map.files)))]
    /\ (last.op = "addFile") =>
          LET f == map.files[Len(map.files)]
          IN  GetStatistics(map) =
                [pointsCount |-> last.statsBefore.pointsCount + Cardinality(Range(f.data.points)),
                 pathsCount |-> last.statsBefore.pathsCount + Cardinality(Range(f.data.paths))]
    /\ (last.op = "removeFile" /\ last.undoesAdd) => GetStatistics(map) = last.statsBefore

\* removeFile(f) ran right after addFile(f) on a map that held other data, among
\* it a file built on the same data as f and a path held by two cells
C7_Witness ==
    /\ last.op = "removeFile"
    /\ last.undoesAdd
    /\ last.statsBefore.pointsCount > 0
    /\ \E i \in 1..Len(map.files) : map.files[i].data = last.removed.data
    /\ \E q \in UNION {Range(map.files[i].data.paths) : i \in 1..Len(map.files)} :
          CellOf(q.a) # CellOf(q.b)

(***************************************************************************)
(* C8                                                                      *)
(***************************************************************************)
RECURSIVE IdsStableFor(_, _, _)
\* the next n round trips of cur each give a map with the ids of orig, from
\* which removeFile with a file of orig removes the file of that id only
IdsStableFor(orig, cur, n) ==
    IF n = 0 THEN TRUE
    ELSE LET r == RoundTripOp(cur)
         IN  /\ ~r.thrown
             /\ FileIds(r.map) = FileIds(orig)
             /\ \A i \in 1..Len(orig.files) :
                   FileIds(RemoveFileOp(r.map, orig.files[i]).map) = Splice(FileIds(orig), i)
             /\ IdsStableFor(orig, r.map, n - 1)

\* C8: after any number of round trips up to Cycles the restored map lists
\* the same ids in the same order, and removeFile with one of the original
\* files removes exactly the file with that id from the restored map.
C8_IdsStable == IdsStableFor(map, map, Cycles)

\* a round trip has rebuilt a map of two files with the same name, and a
\* removeFile by the id of the first has then left the second
C8_Witness ==
    /\ last.op = "removeFile"
    /\ last.found
    /\ IsRestored(last.removed.data.points[1])
    /\ Len(map.files) = 1
    /\ map.files[1].name = last.removed.name
    /\ map.files[1].id # last.id
    /\ \E p \in Range(map.files[1].data.points) : IsRestored(p)

(***************************************************************************)
(* C9                                                                      *)
(***************************************************************************)
\* the point objects toJson meets: members of cells and endpoints of their paths
ReachablePoints(m) ==
    IndexedPoints(m) \cup {q.a : q \in IndexedPaths(m)} \cup {q.b : q \in IndexedPaths(m)}

RECURSIVE RemoveAllFiles(_)
\* removeFile applied to every listed file in turn
RemoveAllFiles(m) ==
    IF Len(m.files) = 0 THEN m ELSE RemoveAllFiles(RemoveFileOp(m, m.files[1]).map)

\* C9: toJson writes one entry per distinct point object and per distinct path
\* object; after fromJson the same cells have members, each file shares with
\* each cell as many objects as before, and removing every file of the
\* restored map empties every cell.
C9_SharedReferencesRestored ==
    LET t == ToJson(map)
        r == FromJson(t.json)
    IN  /\ ~t.thrown
        /\ ~r.thrown
        /\ Len(t.json.points) = Cardinality(ReachablePoints(map))
        /\ Len(t.json.paths) = Cardinality(IndexedPaths(map))
        /\ Len(r.map.files) = Len(map.files)
        /\ NonEmptyCells(r.map.grid) = NonEmptyCells(map.grid)
        /\ \A i \in 1..Len(map.files) : \A c \in Range(NonEmptyCells(map.grid)) :
              /\ Cardinality(Range(r.map.files[i].data.points) \cap Range(r.map.grid[c].points))
                    = Cardinality(Range(map.files[i].data.points) \cap Range(map.grid[c].points))
              /\ Cardinality(Range(r.map.files[i].data.paths) \cap Range(r.map.grid[c].paths))
                    = Cardinality(Range(map.files[i].data.paths) \cap Range(map.grid[c].paths))
        /\ RemoveAllFiles(r.map).grid = CreateEmpty.grid

\* a round trip has rebuilt a map in which one point object is held by a cell
\* and by two files, and one path object by two cells and a file
C9_Witness ==
    /\ last.op = "roundTrip"
    /\ ~last.thrown
    /\ \E i, j \in 1..Len(map.files) : \E p \in IndexedPoints(map) :
          i # j /\ IsRestored(p) /\ p \in Range(map.files[i].data.points)
                /\ p \in Range(map.files[j].data.points)
    /\ \E i \in 1..Len(map.files) : \E q \in Range(map.files[i].data.paths) :
          IsRestored(q) /\ Cardinality(CellsHoldingPath(map.grid, q)) = 2

(***************************************************************************)
(* C10                                                                     *)
(***************************************************************************)
\* C10: a removeFile step whose id no stored file has does not throw and
\* leaves the map (file list, members of every cell, getStatistics) as it was.
C10_UnknownIdIsNoOp ==
    [][(last'.op = "removeFile" /\ ~last'.found) =>
        /\ ~last'.thrown
        /\ map'.files = map.files
        /\ map'.grid = map.grid
        /\ GetStatistics(map') = GetStatistics(map)]_vars

\* removeFile was called with an id no stored file has on a map holding files
C10_Witness ==
    /\ last.op = "removeFile"
    /\ ~last.found
    /\ ~last.thrown
    /\ Len(map.files) > 0
    /\ GetStatistics(map).pointsCount > 0

(***************************************************************************)
(* Construction of points.  Two classes are called LocationPoint: the one  *)
(* of domains/map/value-objects.ts, which TimelinePoint extends and the    *)
(* parsers use, and the one of domains/entities.ts.                        *)
(***************************************************************************)
\* LocationPoint.isValid(lat, lon) of domains/entities.ts
IsValid(lat, lon) ==
    /\ ~IsNaN(lat)
    /\ ~IsNaN(lon)
    /\ NumGE(lat, 0 - 90)
    /\ NumLE(lat, 90)
    /\ NumGE(lon, 0 - 180)
    /\ NumLE(lon, 180)

\* whether the constructor of the LocationPoint of domains/entities.ts throws
EntityPointThrows(lat, lon) == ~IsValid(lat, lon)

\* the coordinates handed to the constructors: the limits, their neighbours, NaN
CoordInputs == {0 - 181, 0 - 180, 0 - 91, 0 - 90, 0, 47, 90, 91, 180, 181, NaN}

\* new TimelinePoint(lat, lon, timestamp), which runs the constructor of the
\* LocationPoint of value-objects.ts
NewTimelinePoint(lat, lon) ==
    /\ last' = [op |-> "newTimelinePoint", lat |-> lat, lon |-> lon,
                thrown |-> LocationPointThrows(lat, lon)]
    /\ UNCHANGED <<map, stored, hookFiles, call>>

\* new LocationPoint(lat, lon) of domains/entities.ts
NewEntityPoint(lat, lon) ==
    /\ last' = [op |-> "newEntityPoint", lat |-> lat, lon |-> lon,
                thrown |-> EntityPointThrows(lat, lon)]
    /\ UNCHANGED <<map, stored, hookFiles, call>>

PointNext ==
    \/ \E lat \in CoordInputs : \E lon \in CoordInputs : NewTimelinePoint(lat, lon)
    \/ \E lat \in CoordInputs : \E lon \in CoordInputs : NewEntityPoint(lat, lon)

PointSpec == Init /\ [][PointNext]_vars

(***************************************************************************)
(* C11                                                                     *)
(***************************************************************************)
\* -90 <= lat <= 90 and -180 <= lon <= 180, which no NaN satisfies
InCoordinateRange(lat, lon) ==
    /\ ~IsNaN(lat) /\ ~IsNaN(lon)
    /\ 0 - 90 <= lat /\ lat <= 90
    /\ 0 - 180 <= lon /\ lon <= 180

\* C11: constructing a LocationPoint or a TimelinePoint throws exactly when
\* (lat, lon) is outside -90..90 x -180..180; the limits are accepted and a
\* NaN in either coordinate is rejected.
C11_ConstructorValidates ==
    (last.op \in {"newTimelinePoint", "newEntityPoint"}) =>
        (last.thrown <=> ~InCoordinateRange(last.lat, last.lon))

(***************************************************************************)
(* JSON values as JSON.parse returns them.  A value is a record with its   *)
(* type in the field t.  A string carries what the parsers read from it:   *)
(* the prefix before its comma-separated parts and, for new Date(string),  *)
(* its time value.  An object carries its properties in the record f.      *)
(***************************************************************************)
JUndefined == [t |-> "undefined"]

JNull == [t |-> "null"]

JNum(v) == [t |-> "num", v |-> v]

\* one comma-separated part of a string: a number ("47"), a number followed
\* by other characters ("47abc"), other text ("abc"), or nothing ("")
Part(text, val) == [text |-> text, val |-> val]

NumPart(v) == Part("num", v)

JStr(prefix, parts, time) == [t |-> "str", prefix |-> prefix, parts |-> parts, time |-> time]

JArr(items) == [t |-> "arr", items |-> items]

JObj(f) == [t |-> "obj", f |-> f]

\* the outcome of an expression that threw
JThrow == [t |-> "throw"]

\* the string ""
EmptyString == JStr("", <<Part("empty", 0)>>, InvalidDate)

\* parseFloat(part): the leading number, NaN without one
ParseFloat(part) == IF part.text \in {"num", "numword"} THEN part.val ELSE NaN

\* the value used as a condition: undefined, null, 0, NaN and "" are falsy
Truthy(x) ==
    CASE x.t \in {"undefined", "null", "throw"} -> FALSE
      [] x.t = "num" -> x.v # 0 /\ ~IsNaN(x.v)
      [] x.t = "str" -> x # EmptyString
      [] OTHER -> TRUE

\* x.name: a TypeError on undefined and null, undefined where x has no such property
Get(x, name) ==
    CASE x.t \in {"undefined", "null", "throw"} -> JThrow
      [] x.t = "obj" -> IF name \in DOMAIN x.f THEN x.f[name] ELSE JUndefined
      [] OTHER -> JUndefined

\* x?.name
OptGet(x, name) ==
    CASE x.t = "throw" -> JThrow
      [] x.t \in {"undefined", "null"} -> JUndefined
      [] OTHER -> Get(x, name)

\* Array.isArray(x)
IsArray(x) == x.t = "arr"

\* x[0] of an array
First(x) == IF Len(x.items) > 0 THEN x.items[1] ELSE JUndefined

\* x?.startsWith?.('geo:') as a condition: undefined unless x is a string
OptStartsWithGeo(x) == x.t = "str" /\ x.prefix = "geo:"

\* new Date(x).getTime() for a truthy JSON value: a string is parsed, a number
\* is the time value itself, anything else gives an Invalid Date
DateOf(x) ==
    CASE x.t = "str" -> x.time
      [] x.t = "num" -> x.v
      [] OTHER -> InvalidDate

\* new Date(): the clock reading during the call
Now == 9000

(***************************************************************************)
(* The parsers of infrastructure/parsers/timeline-parser.ts.  A parsed     *)
(* location is a record [lat, lon]; NoLoc stands for null.                 *)
(***************************************************************************)
NoLoc == [lat |-> NaN, lon |-> NaN, none |-> TRUE, thrown |-> FALSE]

Loc(lat, lon) == [lat |-> lat, lon |-> lon, none |-> FALSE, thrown |-> FALSE]

\* the TypeError of calling a string method on a value that has none, or of
\* reading a property of undefined or null
LocThrow == [lat |-> NaN, lon |-> NaN, none |-> TRUE, thrown |-> TRUE]

\* the try / catch around new LocationPoint(parseFloat(parts[0]), parseFloat(parts[1]))
TryLocationPoint(parts) ==
    LET lat == ParseFloat(parts[1])
        lon == ParseFloat(parts[2])
    IN  IF LocationPointThrows(lat, lon) THEN NoLoc ELSE Loc(lat, lon)

\* IOSTimelineParser.parseGeoString(geoStr)
ParseGeoString(geoStr) ==
    IF geoStr.t = "throw" THEN LocThrow
    ELSE IF ~Truthy(geoStr) THEN NoLoc
    ELSE IF geoStr.t # "str" THEN LocThrow
    ELSE IF geoStr.prefix # "geo:" THEN NoLoc
    ELSE IF Len(geoStr.parts) # 2 THEN NoLoc
    ELSE TryLocationPoint(geoStr.parts)

\* latLngStr.replace(/°/g, '').split(',').map(s => s.trim()): a prefix stays
\* in front of the first part, which then does not start with a number
SplitLatLng(latLngStr) ==
    IF latLngStr.prefix = "" THEN latLngStr.parts
    ELSE [k \in 1..Len(latLngStr.parts) |->
            IF k = 1 THEN Part("word", 0) ELSE latLngStr.parts[k]]

\* AndroidTimelineParser.parseLatLngString(latLngStr)
ParseLatLngString(latLngStr) ==
    IF latLngStr.t = "throw" THEN LocThrow
    ELSE IF ~Truthy(latLngStr) THEN NoLoc
    ELSE IF latLngStr.t # "str" THEN LocThrow
    ELSE IF Len(SplitLatLng(latLngStr)) # 2 THEN NoLoc
    ELSE TryLocationPoint(SplitLatLng(latLngStr))

\* parseEntry returned null
SkippedEntry ==
    [thrown |-> FALSE, skip |-> TRUE, startTime |-> JUndefined, endTime |-> JUndefined,
     startLoc |-> NoLoc, endLoc |-> NoLoc, isPath |-> FALSE, pathPoints |-> <<>>]

\* parseEntry threw
ThrownEntry == [SkippedEntry EXCEPT !.thrown = TRUE]

\* the end of parseEntry: "if (!startLoc || !endLoc) return null" and the
\* object returned otherwise; pathPoints is <<>> where the code leaves it undefined
MakeEntry(entry, startLoc, endLoc, isPath, pathPoints) ==
    IF startLoc.thrown \/ endLoc.thrown THEN ThrownEntry
    ELSE IF startLoc.none \/ endLoc.none THEN SkippedEntry
    ELSE [thrown |-> FALSE, skip |-> FALSE,
          startTime |-> Get(entry, "startTime"), endTime |-> Get(entry, "endTime"),
          startLoc |-> startLoc, endLoc |-> endLoc, isPath |-> isPath, pathPoints |-> pathPoints]

\* the timelinePath branch of parseEntry, given the parsed points: a TypeError
\* in one of them leaves the call, null results are filtered out
PathEntry(entry, parsed) ==
    LET points == SelectSeq(parsed, LAMBDA l : ~l.none)
    IN  IF \E k \in 1..Len(parsed) : parsed[k].thrown THEN ThrownEntry
        ELSE IF Len(points) > 0
        THEN MakeEntry(entry, points[1], points[Len(points)], Len(points) > 1, points)
        ELSE SkippedEntry

\* IOSTimelineParser.parseEntry(entry)
IOSParseEntry(entry) ==
    LET activity == Get(entry, "activity")
        placeLocation == OptGet(OptGet(OptGet(entry, "visit"), "topCandidate"), "placeLocation")
        timelinePath == Get(entry, "timelinePath")
    IN  IF activity = JThrow THEN ThrownEntry
        ELSE IF Truthy(activity)
        THEN MakeEntry(entry, ParseGeoString(Get(activity, "start")),
                       ParseGeoString(Get(activity, "end")), TRUE, <<>>)
        ELSE IF Truthy(placeLocation)
        THEN MakeEntry(entry, ParseGeoString(placeLocation), ParseGeoString(placeLocation),
                       FALSE, <<>>)
        ELSE IF Truthy(timelinePath) /\ IsArray(timelinePath)
        THEN PathEntry(entry, [k \in 1..Len(timelinePath.items) |->
                                  ParseGeoString(Get(timelinePath.items[k], "point"))])
        ELSE SkippedEntry

\* AndroidTimelineParser.parseEntry(entry)
AndroidParseEntry(entry) ==
    LET activity == Get(entry, "activity")
        latLng == OptGet(OptGet(OptGet(OptGet(entry, "visit"), "topCandidate"),
                                "placeLocation"), "latLng")
        timelinePath == Get(entry, "timelinePath")
    IN  IF activity = JThrow THEN ThrownEntry
        ELSE IF Truthy(activity)
        THEN MakeEntry(entry, ParseLatLngString(OptGet(Get(activity, "start"), "latLng")),
                       ParseLatLngString(OptGet(Get(activity, "end"), "latLng")), TRUE, <<>>)
        ELSE IF Truthy(latLng)
        THEN MakeEntry(entry, ParseLatLngString(latLng), ParseLatLngString(latLng), FALSE, <<>>)
        ELSE IF Truthy(timelinePath) /\ IsArray(timelinePath)
        THEN PathEntry(entry, [k \in 1..Len(timelinePath.items) |->
                                  ParseLatLngString(Get(timelinePath.items[k], "point"))])
        ELSE SkippedEntry

\* variant: an entry without a start time is given the time of the call
SortKeyMissingLast(e) == IF Truthy(e.startTime) THEN DateOf(e.startTime) ELSE Now

\* the sort key "a.startTime ? new Date(a.startTime).getTime() : 0"
SortKey(e) == IF Truthy(e.startTime) THEN DateOf(e.startTime) ELSE 0

\* the comparator "timeA - timeB" as a condition "a sorts after b"; with the
\* NaN of an Invalid Date the difference is NaN, which sort reads as 0
SortsAfter(a, b) ==
    /\ SortKey(a) # InvalidDate
    /\ SortKey(b) # InvalidDate
    /\ SortKey(a) > SortKey(b)

RECURSIVE InsertSorted(_, _)
\* e put into the sorted array behind every element that does not sort after it
InsertSorted(sorted, e) ==
    IF Len(sorted) = 0 THEN <<e>>
    ELSE IF SortsAfter(sorted[Len(sorted)], e)
         THEN Append(InsertSorted(SubSeq(sorted, 1, Len(sorted) - 1), e), sorted[Len(sorted)])
         ELSE Append(sorted, e)

RECURSIVE SortEntries(_, _)
\* entries.sort(...) of the first n entries: Array.prototype.sort is stable
SortEntries(entries, n) ==
    IF n = 0 THEN <<>> ELSE InsertSorted(SortEntries(entries, n - 1), entries[n])

\* "distance > 0.0001" for Math.sqrt(dlat^2 + dlon^2): with whole degrees the
\* distance is 0 or at least 1, and NaN compares false
DistanceExceeds(a, b) ==
    /\ ~IsNaN(a.lat) /\ ~IsNaN(a.lon) /\ ~IsNaN(b.lat) /\ ~IsNaN(b.lon)
    /\ (a.lat # b.lat \/ a.lon # b.lon)

\* "x ? new Date(x) : fallback" for a time property of an entry
TimeOr(x, fallback) == IF Truthy(x) THEN DateOf(x) ELSE fallback

\* points.push(new TimelinePoint(lat, lon, timestamp)): the new object has the
\* next identity <<"p", n>>
PushPoint(acc, loc, timestamp) ==
    [acc EXCEPT !.points = Append(@, TimelinePoint(<<"p", acc.n>>, loc.lat, loc.lon, timestamp)),
                !.n = @ + 1]

\* paths.push(new TimelinePath(new TimelinePoint(..), new TimelinePoint(..))):
\* the two endpoints are new objects, members of no point list
PushPath(acc, locA, timeA, locB, timeB) ==
    [acc EXCEPT !.paths = Append(@, TimelinePath(<<"q", Len(acc.paths)>>,
                                   TimelinePoint(<<"p", acc.n>>, locA.lat, locA.lon, timeA),
                                   TimelinePoint(<<"p", acc.n + 1>>, locB.lat, locB.lon, timeB))),
                !.n = @ + 2]

RECURSIVE PushPathPoints(_, _, _, _)
\* "for (const loc of curr.pathPoints) points.push(...)"
PushPathPoints(acc, pathPoints, k, timestamp) ==
    IF k > Len(pathPoints) THEN acc
    ELSE PushPathPoints(PushPoint(acc, pathPoints[k], timestamp), pathPoints, k + 1, timestamp)

RECURSIVE PushPathLegsDistinct(_, _, _, _)
\* variant: no path between two consecutive coordinates that are the same place
PushPathLegsDistinct(acc, pathPoints, j, timestamp) ==
    IF j > Len(pathPoints) - 1 THEN acc
    ELSE PushPathLegsDistinct(IF DistanceExceeds(pathPoints[j], pathPoints[j + 1])
                              THEN PushPath(acc, pathPoints[j], timestamp,
                                            pathPoints[j + 1], timestamp)
                              ELSE acc,
                              pathPoints, j + 1, timestamp)

RECURSIVE PushPathLegs(_, _, _, _)
\* "for (let j = 0; j < curr.pathPoints.length - 1; j++) paths.push(...)"
PushPathLegs(acc, pathPoints, j, timestamp) ==
    IF j > Len(pathPoints) - 1 THEN acc
    ELSE PushPathLegs(PushPath(acc, pathPoints[j], timestamp, pathPoints[j + 1], timestamp),
                      pathPoints, j + 1, timestamp)

\* the body of the loop of buildTimelineData for entries[i]
BuildEntry(acc, entries, i) ==
    LET curr == entries[i]
        timestamp == TimeOr(curr.startTime, Now)
        a1 == IF Len(curr.pathPoints) > 0
              THEN PushPathLegs(PushPathPoints(acc, curr.pathPoints, 1, timestamp),
                                curr.pathPoints, 1, timestamp)
              ELSE LET b1 == PushPoint(acc, curr.startLoc, timestamp)
                       b2 == IF DistanceExceeds(curr.endLoc, curr.startLoc)
                             THEN PushPoint(b1, curr.endLoc, TimeOr(curr.endTime, timestamp))
                             ELSE b1
                   IN  IF curr.isPath
                       THEN PushPath(b2, curr.startLoc, timestamp,
                                     curr.endLoc, TimeOr(curr.endTime, timestamp))
                       ELSE b2
    IN  IF i > 1
        THEN PushPath(a1, entries[i - 1].endLoc, TimeOr(entries[i - 1].endTime, Now),
                      curr.startLoc, timestamp)
        ELSE a1

RECURSIVE BuildLoop(_, _, _)
BuildLoop(acc, entries, i) ==
    IF i > Len(entries) THEN acc ELSE BuildLoop(BuildEntry(acc, entries, i), entries, i + 1)

\* buildTimelineData(entries), the same code in both parsers
BuildTimelineData(entries) ==
    LET acc == BuildLoop([points |-> <<>>, paths |-> <<>>, n |-> 0], entries, 1)
    IN  TimelineData(acc.points, acc.paths)

\* the result of a parse call that threw
ParseThrown == [thrown |-> TRUE, data |-> TimelineData(<<>>, <<>>)]

\* the map / filter / sort / buildTimelineData chain of parse on the parsed entries
ParseEntries(parsed) ==
    IF \E k \in 1..Len(parsed) : parsed[k].thrown THEN ParseThrown
    ELSE LET kept == SelectSeq(parsed, LAMBDA e : ~e.skip)
         IN  [thrown |-> FALSE, data |-> BuildTimelineData(SortEntries(kept, Len(kept)))]

\* IOSTimelineParser.parse(data)
IOSParse(data) == ParseEntries([k \in 1..Len(data.items) |-> IOSParseEntry(data.items[k])])

\* AndroidTimelineParser.parse(data)
AndroidParse(data) ==
    LET segments == Get(data, "semanticSegments")
    IN  ParseEntries([k \in 1..Len(segments.items) |-> AndroidParseEntry(segments.items[k])])

\* IOSTimelineParser.canParse(data): the value as a condition, and whether the
\* call threw
IOSCanParse(data) ==
    IF ~IsArray(data) \/ Len(data.items) = 0 THEN [thrown |-> FALSE, value |-> FALSE]
    ELSE LET first == First(data)
             timelinePath == Get(first, "timelinePath")
         IN  IF Get(first, "activity") = JThrow THEN [thrown |-> TRUE, value |-> FALSE]
             ELSE [thrown |-> FALSE,
                   value |->
                     \/ OptStartsWithGeo(OptGet(OptGet(first, "activity"), "start"))
                     \/ OptStartsWithGeo(OptGet(OptGet(OptGet(first, "visit"), "topCandidate"),
                                                "placeLocation"))
                     \/ /\ IsArray(timelinePath)
                        /\ OptStartsWithGeo(OptGet(First(timelinePath), "point"))]

\* AndroidTimelineParser.canParse(data)
AndroidCanParse(data) ==
    /\ Truthy(data)
    /\ data.t \in {"obj", "arr"}
    /\ IsArray(Get(data, "semanticSegments"))

\* TimelineParserFactory.parse(data)
FactoryParse(data) ==
    LET ios == IOSCanParse(data)
    IN  IF ios.thrown THEN ParseThrown
        ELSE IF ios.value THEN IOSParse(data)
        ELSE IF AndroidCanParse(data) THEN AndroidParse(data)
        ELSE [thrown |-> FALSE, data |-> TimelineData(<<>>, <<>>)]

(***************************************************************************)
(* The JSON documents handed to TimelineParserFactory.parse                *)
(***************************************************************************)
\* largest number of entries of a document
MaxEntries == 2

\* "geo:<lat>,<lon>"
Geo(lat, lon) == JStr("geo:", <<NumPart(lat), NumPart(lon)>>, InvalidDate)

\* "<lat>°, <lon>°"
LatLng(lat, lon) == JStr("", <<Part("numword", lat), Part("numword", lon)>>, InvalidDate)

\* an ISO date string with the given time value, such as "1970-01-01T00:00:01.000Z"
TimeStr(ms) == JStr("", <<Part("numword", 1970)>>, ms)

\* a string that is no date
BadTimeStr == JStr("", <<Part("word", 0)>>, InvalidDate)

\* location strings that are malformed: a wrong prefix, one part, three parts,
\* parts that are no numbers, a latitude out of range
WrongPrefix == JStr("loc:", <<NumPart(47), NumPart(0 - 122)>>, InvalidDate)

OnePart == JStr("geo:", <<NumPart(47)>>, InvalidDate)

ThreeParts == JStr("geo:", <<NumPart(47), NumPart(0 - 122), NumPart(5)>>, InvalidDate)

NonNumeric == JStr("geo:", <<Part("word", 0), Part("word", 0)>>, InvalidDate)

OutOfRange == JStr("geo:", <<NumPart(91), NumPart(0)>>, InvalidDate)

MalformedGeo == <<WrongPrefix, OnePart, ThreeParts, NonNumeric, OutOfRange>>

\* the same for the Android format, which has no prefix
MalformedLatLng ==
    << JStr("", <<Part("numword", 47)>>, InvalidDate),
       JStr("", <<Part("numword", 47), Part("numword", 0 - 122), Part("numword", 5)>>, InvalidDate),
       JStr("", <<Part("word", 0), Part("word", 0)>>, InvalidDate),
       JStr("", <<Part("numword", 91), Part("numword", 0)>>, InvalidDate) >>

\* { visit: { topCandidate: { placeLocation: loc } }, startTime, endTime }
IOSVisit(loc, startTime, endTime) ==
    JObj([visit |-> JObj([topCandidate |-> JObj([placeLocation |-> loc])]),
          startTime |-> startTime, endTime |-> endTime])

\* { activity: { start: a, end: b }, startTime, endTime }
IOSActivity(a, b, startTime, endTime) ==
    JObj([activity |-> JObj([start |-> a, end |-> b]),
          startTime |-> startTime, endTime |-> endTime])

\* { timelinePath: [{ point: a }, { point: b }], startTime }
IOSPath(a, b, startTime) ==
    JObj([timelinePath |-> JArr(<<JObj([point |-> a]), JObj([point |-> b])>>),
          startTime |-> startTime])

\* { visit: { topCandidate: { placeLocation: { latLng: loc } } }, startTime, endTime }
AndroidVisit(loc, startTime, endTime) ==
    JObj([visit |-> JObj([topCandidate |-> JObj([placeLocation |-> JObj([latLng |-> loc])])]),
          startTime |-> startTime, endTime |-> endTime])

\* { activity: { start: { latLng: a }, end: { latLng: b } }, startTime, endTime }
AndroidActivity(a, b, startTime, endTime) ==
    JObj([activity |-> JObj([start |-> JObj([latLng |-> a]), end |-> JObj([latLng |-> b])]),
          startTime |-> startTime, endTime |-> endTime])

\* well-formed entries of the iOS format
GoodIOSEntries ==
    << IOSVisit(Geo(47, 0 - 122), TimeStr(1000), TimeStr(1500)),
       IOSActivity(Geo(47, 0 - 122), Geo(52, 0 - 118), TimeStr(2000), TimeStr(2500)),
       IOSPath(Geo(10, 20), Geo(11, 21), TimeStr(500)),
       IOSVisit(Geo(30, 40), JUndefined, TimeStr(700)) >>

\* entries of the iOS format with a malformed location string
MalformedIOSEntries ==
    [k \in 1..Len(MalformedGeo) |->
        IF k % 2 = 1 THEN IOSVisit(MalformedGeo[k], TimeStr(3000), TimeStr(3500))
        ELSE IOSActivity(MalformedGeo[k], Geo(52, 0 - 118), TimeStr(3000), TimeStr(3500))]

GoodAndroidEntries ==
    << AndroidVisit(LatLng(0 - 33, 151), TimeStr(1000), JUndefined),
       AndroidActivity(LatLng(47, 0 - 122), LatLng(45, 0 - 123), TimeStr(2000), TimeStr(2500)) >>

MalformedAndroidEntries ==
    [k \in 1..Len(MalformedLatLng) |->
        IF k % 2 = 1 THEN AndroidVisit(MalformedLatLng[k], TimeStr(3000), TimeStr(3500))
        ELSE AndroidActivity(LatLng(47, 0 - 122), MalformedLatLng[k], TimeStr(3000), TimeStr(3500))]

IOSEntries == GoodIOSEntries \o MalformedIOSEntries

AndroidEntries == GoodAndroidEntries \o MalformedAndroidEntries

\* the arrays of one to MaxEntries entries drawn from entries
EntryArrays(entries) ==
    UNION {[1..n -> 1..Len(entries)] : n \in 1..MaxEntries}

\* an iOS document: the array of the entries picked by pick
IOSDocument(pick) == JArr([k \in DOMAIN pick |-> IOSEntries[pick[k]]])

\* an Android document: { semanticSegments: [...] }
AndroidDocument(pick) ==
    JObj([semanticSegments |-> JArr([k \in DOMAIN pick |-> AndroidEntries[pick[k]]])])

\* largest number of coordinates of a dense timelinePath
MaxPathPoints == 5

\* the k-th coordinate of the dense path; the 4th and the 5th are the same place
PathCoord(k) == [lat |-> 18 + ((k \div 2) % 3), lon |-> 73 + (k \div 3)]

\* { startTime, endTime, timelinePath: [{ point: "geo:.." }, ...] } with n coordinates
IOSDensePath(n) ==
    JObj([startTime |-> TimeStr(1000), endTime |-> TimeStr(1500),
          timelinePath |-> JArr([k \in 1..n |->
                                   JObj([point |-> Geo(PathCoord(k).lat, PathCoord(k).lon)])])])

\* the same entry in the Android format
AndroidDensePath(n) ==
    JObj([startTime |-> TimeStr(1000), endTime |-> TimeStr(1500),
          timelinePath |-> JArr([k \in 1..n |->
                                   JObj([point |-> LatLng(PathCoord(k).lat, PathCoord(k).lon)])])])

\* a visit whose startTime is no date, alone in its document
BadTimeDocument == JArr(<<IOSVisit(Geo(47, 0 - 122), BadTimeStr, JUndefined)>>)

\* JSON values neither parser recognises: null, scalars, objects without a
\* semanticSegments array, the empty array, arrays whose first element is no entry
UnrecognisedDocuments ==
    << JNull,
       JNum(0),
       JNum(5),
       TimeStr(1000),
       EmptyString,
       JObj(<<>>),
       JObj([semanticSegments |-> JNum(3)]),
       JObj([points |-> JArr(<<>>)]),
       JArr(<<>>),
       JArr(<<JNum(5)>>),
       JArr(<<TimeStr(1000)>>),
       JArr(<<JObj(<<>>)>>),
       JArr(<<JArr(<<>>)>>),
       JArr(<<JNull>>),
       JArr(<<JObj([activity |-> JObj([start |-> JNum(5)])])>>) >>

(***************************************************************************)
(* Calls of the parser                                                     *)
(***************************************************************************)
\* TimelineParserFactory.parse(data); the parsers keep no state, so every
\* call is made in the initial state
Parse(kind, data, pick) ==
    LET r == FactoryParse(data)
    IN  /\ last.op # "parse"
        /\ last' = [op |-> "parse", kind |-> kind, data |-> data, pick |-> pick,
                    thrown |-> r.thrown, result |-> r.data]
        /\ UNCHANGED <<map, stored, hookFiles, call>>

ParserNext ==
    \/ \E pick \in EntryArrays(IOSEntries) : Parse("ios", IOSDocument(pick), pick)
    \/ \E pick \in EntryArrays(AndroidEntries) : Parse("android", AndroidDocument(pick), pick)
    \/ \E k \in 1..Len(UnrecognisedDocuments) :
          Parse("unrecognised", UnrecognisedDocuments[k], <<k>>)
    \/ Parse("ios", BadTimeDocument, <<>>)
    \/ \E n \in 1..MaxPathPoints : Parse("iosPath", JArr(<<IOSDensePath(n)>>), <<n>>)
    \/ \E n \in 1..MaxPathPoints :
          Parse("androidPath", JObj([semanticSegments |-> JArr(<<AndroidDensePath(n)>>)]), <<n>>)

ParserSpec == Init /\ [][ParserNext]_vars

(***************************************************************************)
(* C12                                                                     *)
(***************************************************************************)
\* C12: for every JSON value that neither parser recognises,
\* TimelineParserFactory.parse does not throw and returns a TimelineData
\* without points and without paths.
C12_UnrecognisedGivesEmpty ==
    (last.op = "parse" /\ last.kind = "unrecognised") =>
        /\ ~last.thrown
        /\ last.result = TimelineData(<<>>, <<>>)

(***************************************************************************)
(* C13                                                                     *)
(***************************************************************************)
\* the positions of pick that choose a well-formed entry, in order
WellFormedPicks(pick, good) == SelectSeq(pick, LAMBDA k : k <= Len(good))

\* what the parser of the document's format returns for the well-formed
\* entries of the document alone
ParseOfWellFormed(kind, pick) ==
    IF kind = "ios"
    THEN IOSParse(IOSDocument(WellFormedPicks(pick, GoodIOSEntries)))
    ELSE AndroidParse(AndroidDocument(WellFormedPicks(pick, GoodAndroidEntries)))

\* C13: a document with entries whose location string is malformed parses
\* without a throw, to the result its other entries give alone: a malformed
\* entry adds no point and no path, and the others are still parsed.
C13_MalformedEntrySkipped ==
    (/\ last.op = "parse"
     /\ last.kind \in {"ios", "android"}
     /\ Len(last.pick) > 0
     /\ WellFormedPicks(last.pick, IF last.kind = "ios" THEN GoodIOSEntries
                                   ELSE GoodAndroidEntries) # last.pick) =>
        /\ ~last.thrown
        /\ last.result = ParseOfWellFormed(last.kind, last.pick).data

(***************************************************************************)
(* TimelineFileService, TimelineFileRepository and useTimelineFiles        *)
(***************************************************************************)
\* a File handed to uploadFiles: whether the FileReader can read it, whether
\* its text is JSON, and the parsed JSON value
UploadFile(name, readable, valid, value) ==
    [name |-> name, readable |-> readable, valid |-> valid, value |-> value]

\* the objects a parse allocates are new at every call: k tells the calls apart
AllocatedPoint(p, k) == [p EXCEPT !.oid = <<p.oid[1], k, p.oid[2]>>]

AllocatedData(data, k) ==
    [points |-> [i \in DOMAIN data.points |-> AllocatedPoint(data.points[i], k)],
     paths |-> [i \in DOMAIN data.paths |->
                   [oid |-> <<data.paths[i].oid[1], k, data.paths[i].oid[2]>>,
                    a |-> AllocatedPoint(data.paths[i].a, k),
                    b |-> AllocatedPoint(data.paths[i].b, k)]]]

\* processFile(file): the promise rejects when the reader fails, when
\* JSON.parse throws or when the parser throws; k numbers the call
ProcessFile(file, k) ==
    IF ~file.readable \/ ~file.valid THEN [rejected |-> TRUE]
    ELSE LET r == FactoryParse(file.value)
         IN  IF r.thrown THEN [rejected |-> TRUE]
             ELSE [rejected |-> FALSE,
                   file |-> TimelineFile(file.name, AllocatedData(r.data, k), NoId, k)]

\* the body of the loop of uploadFiles with its catch taken away: a failure
\* of processFile or of addFile leaves the loop (r is what processFile gave)
UploadStepWithoutCatch(m, processedFiles, r) ==
    IF r.rejected
    THEN [map |-> m, processedFiles |-> processedFiles, thrown |-> TRUE]
    ELSE LET stats == GroupStatistics(r.file.data)
         IN  IF stats.totalPoints > 0 \/ stats.totalPaths > 0
             THEN LET a == AddFileOp(m, r.file)
                  IN  [map |-> a.map,
                       processedFiles |-> IF a.thrown THEN processedFiles
                                          ELSE Append(processedFiles, r.file),
                       thrown |-> a.thrown]
             ELSE [map |-> m, processedFiles |-> processedFiles, thrown |-> FALSE]

\* the body of the loop of uploadFiles for one file, r being what processFile
\* gave: a failure of processFile or of addFile is caught and logged, so
\* nothing is thrown to the loop
UploadStep(m, processedFiles, r) ==
    IF r.rejected
    THEN [map |-> m, processedFiles |-> processedFiles, thrown |-> FALSE]
    ELSE LET stats == GroupStatistics(r.file.data)
         IN  IF stats.totalPoints > 0 \/ stats.totalPaths > 0
             THEN LET a == AddFileOp(m, r.file)
                  IN  [map |-> a.map,
                       processedFiles |-> IF a.thrown THEN processedFiles
                                          ELSE Append(processedFiles, r.file),
                       thrown |-> FALSE]
             ELSE [map |-> m, processedFiles |-> processedFiles, thrown |-> FALSE]

\* repository.saveMap(map): rejects when toJson throws or when IndexedDB
\* fails (ok is FALSE); otherwise the record "main" holds the JSON
SaveMap(m, record, ok) ==
    LET j == ToJson(m)
    IN  IF j.thrown \/ ~ok THEN [rejected |-> TRUE, stored |-> record]
        ELSE [rejected |-> FALSE, stored |-> [present |-> TRUE, data |-> j.json]]

\* the files of the model's uploads
UnreadableFile == UploadFile("unreadable.json", FALSE, FALSE, JUndefined)

NotJsonFile == UploadFile("notes.txt", TRUE, FALSE, JUndefined)

NullEntryFile == UploadFile("null.json", TRUE, TRUE, JArr(<<JNull>>))

EmptyFile == UploadFile("empty.json", TRUE, TRUE, JArr(<<>>))

VisitFile == UploadFile("visit.json", TRUE, TRUE, IOSDocument(<<1>>))

ActivityFile == UploadFile("activity.json", TRUE, TRUE, AndroidDocument(<<2>>))

NonNumericFile ==
    UploadFile("nonnumeric.json", TRUE, TRUE,
               IOSDocument(<<Len(GoodIOSEntries) + IndexOf(MalformedGeo, NonNumeric)>>))

UploadFiles ==
    {UnreadableFile, NotJsonFile, NullEntryFile, EmptyFile, VisitFile, ActivityFile,
     NonNumericFile}

\* the batches that fit into the map
Batches(m) ==
    UNION {[1..n -> UploadFiles] : n \in 1..(MaxFiles - Len(m.files))}

\* useTimelineFiles.uploadFiles(fileList) calls service.uploadFiles(fileList)
HookUploadFiles(batch) ==
    /\ call.phase = "idle"
    /\ call' = [phase |-> "processing", files |-> batch, pos |-> 1,
                processedFiles |-> <<>>, saves |-> 0, savedAt |-> 0]
    /\ last' = [op |-> "hookUploadFiles"]
    /\ UNCHANGED <<map, stored, hookFiles>>

\* one turn of the loop of service.uploadFiles
ProcessNextFile ==
    /\ call.phase = "processing"
    /\ call.pos <= Len(call.files)
    /\ \E p \in {ProcessFile(call.files[call.pos], Len(map.files) + 1)} :
       \E r \in {UploadStep(map, call.processedFiles, p)} :
          /\ map' = r.map
          /\ call' = [call EXCEPT !.phase = IF r.thrown THEN "rejected" ELSE @,
                                  !.pos = @ + 1,
                                  !.processedFiles = r.processedFiles]
    /\ last' = [op |-> "processFile"]
    /\ UNCHANGED <<stored, hookFiles>>

\* the end of service.uploadFiles: saveMap when a file was processed, then
\* the promise settles
PersistBatch(ok) ==
    /\ call.phase = "processing"
    /\ call.pos > Len(call.files)
    /\ IF call.processedFiles = <<>>
       THEN /\ ok
            /\ call' = [call EXCEPT !.phase = "resolved"]
            /\ stored' = stored
       ELSE \E s \in {SaveMap(map, stored, ok)} :
                /\ stored' = s.stored
                /\ call' = [call EXCEPT !.phase = IF s.rejected THEN "rejected"
                                                  ELSE "resolved",
                                        !.saves = @ + 1,
                                        !.savedAt = call.pos - 1]
    /\ last' = [op |-> "persistBatch"]
    /\ UNCHANGED <<map, hookFiles>>

\* the rest of useTimelineFiles.uploadFiles: after a resolved call the file
\* list is reloaded from the service, after a rejected one it is only logged
HookSettle ==
    /\ call.phase \in {"resolved", "rejected"}
    /\ hookFiles' = IF call.phase = "resolved" THEN GetAllFiles(map) ELSE hookFiles
    /\ last' = [op |-> "uploadFiles", outcome |-> call.phase, files |-> call.files,
                pos |-> call.pos, processedFiles |-> call.processedFiles,
                saves |-> call.saves, savedAt |-> call.savedAt]
    /\ call' = NoCall
    /\ UNCHANGED <<map, stored>>

ServiceNext ==
    \/ \E batch \in Batches(map) : HookUploadFiles(batch)
    \/ ProcessNextFile
    \/ \E ok \in BOOLEAN : PersistBatch(ok)
    \/ HookSettle

ServiceSpec == Init /\ [][ServiceNext]_vars

(***************************************************************************)
(* C14                                                                     *)
(***************************************************************************)
\* the file can be read, its text is JSON and the parser does not throw
ReadsAndParses(file) ==
    file.readable /\ file.valid /\ ~FactoryParse(file.value).thrown

\* the file reads and parses to a TimelineData that is not empty
ProducesData(file) ==
    /\ ReadsAndParses(file)
    /\ LET data == FactoryParse(file.value).data
       IN  Len(data.points) > 0 \/ Len(data.paths) > 0

\* the file produces data all of whose coordinates are numbers
Succeeds(file) ==
    /\ ProducesData(file)
    /\ LET data == FactoryParse(file.value).data
       IN  /\ \A i \in DOMAIN data.points :
                ~IsNaN(data.points[i].lat) /\ ~IsNaN(data.points[i].lon)
           /\ \A i \in DOMAIN data.paths :
                /\ ~IsNaN(data.paths[i].a.lat) /\ ~IsNaN(data.paths[i].a.lon)
                /\ ~IsNaN(data.paths[i].b.lat) /\ ~IsNaN(data.paths[i].b.lon)

NamesOf(files) == [i \in DOMAIN files |-> files[i].name]

\* C14: when a file of the batch cannot be read or parsed, uploadFiles still
\* goes through every file of the batch, the files it returns are the
\* successful ones in batch order, each of them is in the map, and the call
\* rejects only when the save at its end failed.
C14_FailureDoesNotStopBatch ==
    (last.op = "uploadFiles" /\ \E i \in DOMAIN last.files : ~ReadsAndParses(last.files[i])) =>
        /\ last.pos = Len(last.files) + 1
        /\ NamesOf(last.processedFiles) = NamesOf(SelectSeq(last.files, Succeeds))
        /\ \A i \in DOMAIN last.processedFiles :
              last.processedFiles[i] \in Range(GetAllFiles(map))
        /\ last.outcome = "rejected" => last.saves = 1

\* a resolved call whose batch had a failing file before a successful one
C14_Witness ==
    /\ last.op = "uploadFiles"
    /\ last.outcome = "resolved"
    /\ \E i, j \in DOMAIN last.files :
          /\ i < j
          /\ ~ReadsAndParses(last.files[i])
          /\ Succeeds(last.files[j])
    /\ last.processedFiles # <<>>

(***************************************************************************)
(* C15                                                                     *)
(***************************************************************************)
\* C15: in one uploadFiles call saveMap is called at most once, only after
\* the last file of the batch was processed, and exactly once when a file of
\* the batch produced a TimelineData that is not empty.
C15_SavedOnceAfterBatch ==
    /\ call.phase # "idle" =>
          /\ call.saves <= 1
          /\ call.saves = 1 => call.savedAt = Len(call.files)
    /\ last.op = "uploadFiles" =>
          /\ last.saves <= 1
          /\ last.saves = 1 => last.savedAt = Len(last.files)
          /\ (\E i \in DOMAIN last.files : ProducesData(last.files[i])) => last.saves = 1

(***************************************************************************)
(* C16                                                                     *)
(***************************************************************************)
\* C16: when saveMap fails after uploadFiles added files, the call rejects,
\* the added files are still in the map (getAllFiles), and they are in the
\* file list of useTimelineFiles.
C16_FailedSaveKeepsFilesVisible ==
    (last.op = "uploadFiles" /\ last.outcome = "rejected" /\ last.processedFiles # <<>>) =>
        \A i \in DOMAIN last.processedFiles :
            /\ last.processedFiles[i] \in Range(GetAllFiles(map))
            /\ last.processedFiles[i] \in Range(hookFiles)

(***************************************************************************)
(* C17                                                                     *)
(***************************************************************************)
\* C17: queryViewport(bounds) returns every indexed point with
\* minLat <= lat <= maxLat and minLon <= lon <= maxLon, points on the maximum
\* edge of the rectangle and on a cell boundary included: the points returned
\* are those the inclusive filter accepts among the points of all cells.
C17_ScanOmitsNoPoint ==
    (last.op = "queryViewport") =>
        /\ ~last.result.thrown
        /\ Range(last.result.points) =
              {p \in IndexedPoints(map) : InClosedRect(p, last.bounds)}

(***************************************************************************)
(* Loading stored JSON that is not what toJson wrote: another grid         *)
(* resolution, segments of another grid, a path whose endpoint index has   *)
(* no point, an empty points array                                         *)
(***************************************************************************)
\* data.paths with the endpoint end of its k-th path set to n, an index that
\* has no entry in data.points (k = 0: no path is touched)
Dangle(paths, k, end, n) ==
    IF k \notin 1..Len(paths) THEN paths
    ELSE IF end = "a" THEN [paths EXCEPT ![k].a = n]
    ELSE [paths EXCEPT ![k].b = n]

\* data.segments as a grid of another layout wrote them: every segment one
\* cell further
MovedSegments(segments) ==
    [k \in DOMAIN segments |-> [segments[k] EXCEPT !.index = (@ + 1) % GridSize]]

\* the stored JSON json changed as c tells
Corrupt(json, c) ==
    [json EXCEPT !.latStepCounts = c.lat,
                 !.lonStepCounts = c.lon,
                 !.segments = IF c.segments = "moved" THEN MovedSegments(@) ELSE @,
                 !.paths = Dangle(@, c.path, c.end, Len(json.points)),
                 !.points = IF c.cut THEN <<>> ELSE @]

\* the changes of the model: one dimension at most differs, one path at most
\* dangles, and the points are emptied only when no path is touched
Corruptions ==
    {c \in [lat : {LAT_STEP_COUNTS, LAT_STEP_COUNTS \div 2},
            lon : {LON_STEP_COUNTS, LON_STEP_COUNTS * 2},
            segments : {"kept", "moved"},
            path : 0..2,
            end : {"a", "b"},
            cut : BOOLEAN] :
        /\ c.lat = LAT_STEP_COUNTS \/ c.lon = LON_STEP_COUNTS
        /\ c.path # 1 => c.end = "a"
        /\ c.cut => c.path = 0}

\* Map.fromJson(data) for the JSON of the current map changed as c tells
Load(c) ==
    /\ \E j \in {ToJson(map)} :
          /\ ~j.thrown
          /\ c.path <= Len(j.json.paths)
          /\ \E data \in {Corrupt(j.json, c)} :
             \E r \in {FromJson(data)} :
                last' = [op |-> "fromJson", corruption |-> c, data |-> data,
                         thrown |-> r.thrown,
                         map |-> IF r.thrown THEN CreateEmpty ELSE r.map]
    /\ UNCHANGED <<map, stored, hookFiles, call>>

\* removeFile(f) on the map the last fromJson call returned
RemoveLoaded(f) ==
    /\ last.op = "fromJson"
    /\ ~last.thrown
    /\ f.id \in StoredIds(last.map)
    /\ \E r \in {RemoveFileOp(last.map, f)} :
          last' = [op |-> "removeLoaded", id |-> f.id, data |-> last.data,
                   before |-> last.map, thrown |-> r.thrown, map |-> r.map]
    /\ UNCHANGED <<map, stored, hookFiles, call>>

LoadNext ==
    \/ \E f \in UserFiles : AddFile(f)
    \/ \E f \in UserFiles : RemoveFile(f)
    \/ \E c \in Corruptions : Load(c)
    \/ \E f \in UserFiles : RemoveLoaded(f)

LoadSpec == Init /\ [][LoadNext]_vars

(***************************************************************************)
(* C18                                                                     *)
(***************************************************************************)
RECURSIVE AddFiles(_, _, _)
\* addFile of files[i], files[i+1], ... on m
AddFiles(m, files, i) ==
    IF i > Len(files) THEN [map |-> m, thrown |-> FALSE]
    ELSE LET r == AddFileOp(m, files[i])
         IN  IF r.thrown THEN r ELSE AddFiles(r.map, files, i + 1)

\* data.latStepCounts or data.lonStepCounts is not the configured value
DimensionsDiffer(data) ==
    data.latStepCounts # LAT_STEP_COUNTS \/ data.lonStepCounts # LON_STEP_COUNTS

\* C18: when the stored grid dimensions differ from 18 x 36, the map fromJson
\* returns has the cell membership of an empty map to which the loaded files
\* were added with addFile in file order, whatever data.segments holds.
C18_ReindexEqualsReplay ==
    (last.op = "fromJson" /\ DimensionsDiffer(last.data) /\ ~last.thrown) =>
        LET r == AddFiles(CreateEmpty, last.map.files, 1)
        IN  /\ ~r.thrown
            /\ r.map.grid = last.map.grid

\* a load with other dimensions and segments of another layout that gave a
\* map of two files with indexed points and paths
C18_Witness ==
    /\ last.op = "fromJson"
    /\ DimensionsDiffer(last.data)
    /\ ~last.thrown
    /\ last.corruption.segments = "moved"
    /\ Len(last.map.files) >= 2
    /\ IndexedPoints(last.map) # {}
    /\ IndexedPaths(last.map) # {}

(***************************************************************************)
(* C19                                                                     *)
(***************************************************************************)
\* the index idx of data.points / data.paths has an entry
HasEntry(arr, idx) == idx \in 0..(Len(arr) - 1)

\* the path serialized at index idx has both endpoints among data.points
SerializedPathValid(data, idx) ==
    /\ HasEntry(data.paths, idx)
    /\ HasEntry(data.points, data.paths[idx + 1].a)
    /\ HasEntry(data.points, data.paths[idx + 1].b)

\* data.paths has an entry with an endpoint index that has no point
HasDanglingPath(data) ==
    \E idx \in 0..(Len(data.paths) - 1) : ~SerializedPathValid(data, idx)

\* coordinates and time of the point serialized at index idx
SerializedPointValue(data, idx) ==
    [lat |-> data.points[idx + 1].lat, lon |-> data.points[idx + 1].lon,
     timestamp |-> ParseDate(data.points[idx + 1].timestamp)]

\* endpoints of the path serialized at index idx
SerializedPathValue(data, idx) ==
    [a |-> SerializedPointValue(data, data.paths[idx + 1].a),
     b |-> SerializedPointValue(data, data.paths[idx + 1].b)]

\* the set paths holds a path with the endpoints of the one serialized at idx
HoldsSerializedPath(paths, data, idx) ==
    \E q \in Range(paths) :
        IsDefined(q) /\ IsDefined(q.a) /\ IsDefined(q.b)
        /\ PathValue(q) = SerializedPathValue(data, idx)

\* C19: after fromJson dropped a serialized path with a missing endpoint,
\* every pathIndices entry of a file or of a segment that names another,
\* valid path resolves to the path serialized at that index: the file, or the
\* cell, holds a path with those endpoints.
C19_IndicesKeptAfterDrop ==
    (last.op = "fromJson" /\ ~last.thrown /\ HasDanglingPath(last.data)) =>
        /\ \A k \in DOMAIN last.data.files :
              \A idx \in Range(last.data.files[k].pathIndices) :
                 SerializedPathValid(last.data, idx) =>
                    HoldsSerializedPath(last.map.files[k].data.paths, last.data, idx)
        /\ ~DimensionsDiffer(last.data) =>
              \A k \in DOMAIN last.data.segments :
                 \A idx \in Range(last.data.segments[k].pathIndices) :
                    SerializedPathValid(last.data, idx) =>
                       HoldsSerializedPath(last.map.grid[last.data.segments[k].index].paths,
                                           last.data, idx)

(***************************************************************************)
(* C20                                                                     *)
(***************************************************************************)
\* the path objects the files of m hold
FilePaths(m) == UNION {Range(m.files[k].data.paths) : k \in DOMAIN m.files}

\* C20: fromJson does not throw on stored JSON with a path whose a or b index
\* has no entry in the points array, and no file and no grid cell of the
\* result holds a path with a missing endpoint.
C20_DanglingPathNotFatal ==
    (last.op = "fromJson" /\ HasDanglingPath(last.data)) =>
        /\ ~last.thrown
        /\ \A q \in FilePaths(last.map) \cup IndexedPaths(last.map) :
              IsDefined(q) => IsDefined(q.a) /\ IsDefined(q.b)

(***************************************************************************)
(* C21                                                                     *)
(***************************************************************************)
\* the number of serialized paths fromJson can construct
ValidPathCount(data) ==
    Cardinality({idx \in 0..(Len(data.paths) - 1) : SerializedPathValid(data, idx)})

\* the index lists of the files and of the segments of data
IndexLists(data) ==
    {data.files[k] : k \in DOMAIN data.files} \cup {data.segments[k] : k \in DOMAIN data.segments}

\* a pointIndices or pathIndices entry of data names an entry that fromJson
\* does not have: a point outside data.points, a path beyond the constructed ones
HasMissingReference(data) ==
    \E l \in IndexLists(data) :
        \/ \E idx \in Range(l.pointIndices) : ~HasEntry(data.points, idx)
        \/ \E idx \in Range(l.pathIndices) : idx \notin 0..(ValidPathCount(data) - 1)

\* the point and path objects the files of m hold
FilePoints(m) == UNION {Range(m.files[k].data.points) : k \in DOMAIN m.files}

\* C21: after fromJson on stored JSON with index entries that name missing
\* points or paths, no grid cell and no file holds undefined as a member,
\* getStatistics counts only real points and paths, and queryViewport does
\* not throw for any bounds.
C21_NoUndefinedMembers ==
    (last.op = "fromJson" /\ HasMissingReference(last.data)) =>
        /\ ~last.thrown
        /\ \A x \in FilePoints(last.map) \cup FilePaths(last.map)
                    \cup IndexedPoints(last.map) \cup IndexedPaths(last.map) : IsDefined(x)
        /\ \A b \in QueryBounds : ~QueryViewport(last.map, b).thrown

(***************************************************************************)
(* C22                                                                     *)
(***************************************************************************)
\* the file of m with the given id
FileWithId(m, id) == CHOOSE g \in Range(m.files) : g.id = id

\* a path object with both endpoints
IsWholePath(q) == IsDefined(q) /\ IsDefined(q.a) /\ IsDefined(q.b)

\* the data of file g holds undefined as a point or as a path, or a path
\* with a missing endpoint
HasCorruptedData(g) ==
    \/ \E p \in Range(g.data.points) : ~IsDefined(p)
    \/ \E q \in Range(g.data.paths) : ~IsWholePath(q)

\* C22: removeFile of a stored file whose data holds undefined points or
\* paths does not throw, takes the file's valid points and paths out of
\* their cells, and takes the file out of the file list.
C22_RemoveSkipsCorruptedEntries ==
    (last.op = "removeLoaded" /\ HasCorruptedData(FileWithId(last.before, last.id))) =>
        LET g == FileWithId(last.before, last.id)
        IN  /\ ~last.thrown
            /\ last.id \notin StoredIds(last.map)
            /\ Len(last.map.files) = Len(last.before.files) - 1
            /\ \A p \in Range(g.data.points) :
                  IsDefined(p) => p \notin Range(last.map.grid[CellOf(p)].points)
            /\ \A q \in Range(g.data.paths) :
                  IsWholePath(q) =>
                     /\ q \notin Range(last.map.grid[CellOf(q.a)].paths)
                     /\ q \notin Range(last.map.grid[CellOf(q.b)].paths)

\* a removal of a file that held undefined next to valid points which were
\* in their cells before
C22_Witness ==
    /\ last.op = "removeLoaded"
    /\ ~last.thrown
    /\ LET g == FileWithId(last.before, last.id)
       IN  /\ HasCorruptedData(g)
           /\ \E p \in Range(g.data.points) :
                 IsDefined(p) /\ p \in Range(last.before.grid[CellOf(p)].points)

(***************************************************************************)
(* One page session: useTimelineFiles mounts and starts initialize, the    *)
(* shared-files check of App or the user starts uploadFiles, the user      *)
(* removes listed files.  The calls are asynchronous and interleave at     *)
(* their await points: call.init, call.up and call.rm hold where each is.  *)
(***************************************************************************)
IdleCall == [phase |-> "idle"]

\* the number of TimelineFile objects processFile has made so far
MadeFiles == IF "made" \in DOMAIN call THEN call.made ELSE 0

\* repository.loadMap(): fromJson of the record, or an empty map without one
LoadMap(record) ==
    IF record.present THEN FromJson(record.data)
    ELSE [thrown |-> FALSE, map |-> CreateEmpty]

\* the map object a pending saveMap(this.map) was called with: this.map as
\* it is now, or the object initialize has replaced in the meantime
BoundMap(flow) == IF flow.bound.current THEN map ELSE flow.bound.map

\* initialize assigns a new object to this.map: a pending saveMap keeps the old one
Detach(flow) ==
    IF flow.phase = "saving" /\ flow.bound.current
    THEN [flow EXCEPT !.bound = [current |-> FALSE, map |-> map]]
    ELSE flow

\* the files of the model's sessions
SessionFiles == {UnreadableFile, VisitFile, ActivityFile, NonNumericFile}

SessionBatches == UNION {[1..n -> SessionFiles] : n \in 1..(MaxFiles - MadeFiles)}

\* the page loads: the service is constructed with an empty map, the hook
\* mounts with an empty file list and starts service.initialize()
Mount ==
    /\ call.phase = "idle"
    /\ call' = [phase |-> "session", init |-> "loading", up |-> IdleCall, rm |-> IdleCall,
                made |-> MadeFiles, saveFailed |-> FALSE, overlap |-> FALSE, saved |-> FALSE]
    /\ last' = [op |-> "mount"]
    /\ UNCHANGED <<map, stored, hookFiles>>

\* loadMap resolves: initialize assigns this.map, the hook sets its file list
InitializeDone ==
    /\ call.phase = "session"
    /\ call.init = "loading"
    /\ \E r \in {LoadMap(stored)} :
          IF r.thrown
          THEN /\ call' = [call EXCEPT !.init = "failed"]
               /\ UNCHANGED <<map, hookFiles>>
          ELSE /\ map' = r.map
               /\ hookFiles' = GetAllFiles(r.map)
               /\ call' = [call EXCEPT !.init = "loaded", !.up = Detach(@), !.rm = Detach(@)]
    /\ last' = [op |-> "initialize"]
    /\ UNCHANGED stored

\* uploadFiles(batch) of the hook, started by the shared-files check or by the user
StartUpload(batch) ==
    /\ call.phase = "session"
    /\ call.up.phase = "idle"
    /\ call' = [call EXCEPT !.up = [phase |-> "processing", files |-> batch, pos |-> 1,
                                    processedFiles |-> <<>>,
                                    onMount |-> call.init = "loading"],
                            !.overlap = @ \/ call.init = "loading"]
    /\ last' = [op |-> "startUpload"]
    /\ UNCHANGED <<map, stored, hookFiles>>

\* one turn of the loop of service.uploadFiles, on this.map as it is now
UploadTurn ==
    /\ call.phase = "session"
    /\ call.up.phase = "processing"
    /\ call.up.pos <= Len(call.up.files)
    /\ \E p \in {ProcessFile(call.up.files[call.up.pos], call.made + 1)} :
       \E r \in {UploadStep(map, call.up.processedFiles, p)} :
          /\ map' = r.map
          /\ call' = [call EXCEPT !.up.pos = @ + 1,
                                  !.up.processedFiles = r.processedFiles,
                                  !.made = @ + 1]
    /\ last' = [op |-> "uploadTurn"]
    /\ UNCHANGED <<stored, hookFiles>>

\* the loop is over: saveMap(this.map) is called when a file was processed
UploadSaveBegin ==
    /\ call.phase = "session"
    /\ call.up.phase = "processing"
    /\ call.up.pos > Len(call.up.files)
    /\ call' = IF call.up.processedFiles = <<>>
               THEN [call EXCEPT !.up = [phase |-> "resolved", files |-> @.files,
                                         processedFiles |-> <<>>, onMount |-> @.onMount]]
               ELSE [call EXCEPT !.up = [phase |-> "saving", files |-> @.files,
                                         processedFiles |-> @.processedFiles,
                                         onMount |-> @.onMount,
                                         bound |-> [current |-> TRUE]]]
    /\ last' = [op |-> "uploadSaveBegin"]
    /\ UNCHANGED <<map, stored, hookFiles>>

\* saveMap of the upload serializes its map and puts the record
UploadSaveEnd(ok) ==
    /\ call.phase = "session"
    /\ call.up.phase = "saving"
    /\ \E s \in {SaveMap(BoundMap(call.up), stored, ok)} :
          /\ stored' = s.stored
          /\ call' = [call EXCEPT !.up = [phase |-> IF s.rejected THEN "rejected" ELSE "resolved",
                                          files |-> @.files,
                                          processedFiles |-> @.processedFiles,
                                          onMount |-> @.onMount],
                                  !.saveFailed = @ \/ s.rejected,
                                  !.saved = @ \/ ~s.rejected]
    /\ last' = [op |-> "uploadSaveEnd"]
    /\ UNCHANGED <<map, hookFiles>>

\* the hook after service.uploadFiles: setFiles(await service.loadAll()) when
\* it resolved, a log entry when it rejected
UploadSettle ==
    /\ call.phase = "session"
    /\ call.up.phase \in {"resolved", "rejected"}
    /\ hookFiles' = IF call.up.phase = "resolved" THEN GetAllFiles(map) ELSE hookFiles
    /\ last' = [op |-> "sessionUpload", outcome |-> call.up.phase,
                files |-> call.up.files, processedFiles |-> call.up.processedFiles]
    /\ call' = [call EXCEPT !.up = IdleCall]
    /\ UNCHANGED <<map, stored>>

\* removeFile(file) of the hook for a listed file: service.remove takes the
\* file out of this.map and calls saveMap(this.map)
StartRemove(file) ==
    /\ call.phase = "session"
    /\ call.rm.phase = "idle"
    /\ \E r \in {RemoveFileOp(map, file)} :
          /\ map' = r.map
          /\ call' = [call EXCEPT !.rm = IF r.thrown
                                         THEN [phase |-> "rejected", file |-> file]
                                         ELSE [phase |-> "saving", file |-> file,
                                               bound |-> [current |-> TRUE]],
                                  !.overlap = @ \/ call.init = "loading"]
    /\ last' = [op |-> "startRemove"]
    /\ UNCHANGED <<stored, hookFiles>>

\* saveMap of the removal serializes its map and puts the record
RemoveSaveEnd(ok) ==
    /\ call.phase = "session"
    /\ call.rm.phase = "saving"
    /\ \E s \in {SaveMap(BoundMap(call.rm), stored, ok)} :
          /\ stored' = s.stored
          /\ call' = [call EXCEPT !.rm = [phase |-> IF s.rejected THEN "rejected" ELSE "resolved",
                                          file |-> @.file],
                                  !.saveFailed = @ \/ s.rejected,
                                  !.saved = @ \/ ~s.rejected]
    /\ last' = [op |-> "removeSaveEnd"]
    /\ UNCHANGED <<map, hookFiles>>

\* the hook after service.remove: the file leaves the list when it resolved
RemoveSettle ==
    /\ call.phase = "session"
    /\ call.rm.phase \in {"resolved", "rejected"}
    /\ hookFiles' = IF call.rm.phase = "resolved"
                    THEN SelectSeq(hookFiles, LAMBDA f : f.id # call.rm.file.id)
                    ELSE hookFiles
    /\ last' = [op |-> "sessionRemove", outcome |-> call.rm.phase, file |-> call.rm.file]
    /\ call' = [call EXCEPT !.rm = IdleCall]
    /\ UNCHANGED <<map, stored>>

\* the page is closed with nothing in flight; the stored record stays
Reload ==
    /\ call.phase = "session"
    /\ call.init # "loading"
    /\ call.up.phase = "idle"
    /\ call.rm.phase = "idle"
    /\ map' = CreateEmpty
    /\ hookFiles' = <<>>
    /\ call' = [phase |-> "idle", made |-> call.made]
    /\ last' = [op |-> "reload"]
    /\ UNCHANGED stored

SessionNext ==
    \/ Mount
    \/ InitializeDone
    \/ \E batch \in SessionBatches : StartUpload(batch)
    \/ UploadTurn
    \/ UploadSaveBegin
    \/ \E ok \in BOOLEAN : UploadSaveEnd(ok)
    \/ UploadSettle
    \/ \E file \in Range(hookFiles) : StartRemove(file)
    \/ \E ok \in BOOLEAN : RemoveSaveEnd(ok)
    \/ RemoveSettle
    \/ Reload

SessionSpec == Init /\ [][SessionNext]_vars

(***************************************************************************)
(* C23                                                                     *)
(***************************************************************************)
\* the ids of the files of the stored record
RecordIds(record) ==
    IF record.present THEN {record.data.files[i].id : i \in DOMAIN record.data.files} ELSE {}

\* initialize and an uploadFiles call started while it was loading are both over
BothCompleted ==
    /\ call.phase = "session"
    /\ call.init = "loaded"
    /\ call.up.phase = "resolved"
    /\ call.up.onMount

\* C23: at the step that completes the later of initialize and an uploadFiles
\* call started while initialize was loading, every file the upload returns is
\* a file of the service's map and a file of the stored record.
C23_UploadSurvivesInitialize ==
    [][(~BothCompleted /\ BothCompleted') =>
          \A i \in DOMAIN call.up.processedFiles' :
              /\ call.up.processedFiles'[i] \in Range(GetAllFiles(map'))
              /\ call.up.processedFiles'[i].id \in RecordIds(stored')]_vars

(***************************************************************************)
(* C24                                                                     *)
(***************************************************************************)
\* a turn of the loop of uploadFiles that returns no file for its input
TurnWithoutFile ==
    /\ call.phase = "processing"
    /\ call'.phase = "processing"
    /\ call'.pos = call.pos + 1
    /\ call'.processedFiles = call.processedFiles

\* C24: a turn of the loop of uploadFiles that does not return the file,
\* because reading, parsing or addFile threw or because the file holds
\* nothing, leaves the map as it was: the file list and every grid cell.
C24_AddFileAllOrNothing ==
    [][TurnWithoutFile => map' = map]_vars

(***************************************************************************)
(* C25                                                                     *)
(***************************************************************************)
\* the well-formed entries as the documents describe them: start time (0
\* without one), start location with the entry's timestamp, end location with
\* the entry's end time; an entry without a time gets the time of the call
Place(lat, lon, timestamp) == [lat |-> lat, lon |-> lon, timestamp |-> timestamp]

GoodIOSFacts ==
    << [start |-> 1000, from |-> Place(47, 0 - 122, 1000), to |-> Place(47, 0 - 122, 1500)],
       [start |-> 2000, from |-> Place(47, 0 - 122, 2000), to |-> Place(52, 0 - 118, 2500)],
       [start |-> 500, from |-> Place(10, 20, 500), to |-> Place(11, 21, Now)],
       [start |-> 0, from |-> Place(30, 40, Now), to |-> Place(30, 40, 700)] >>

GoodAndroidFacts ==
    << [start |-> 1000, from |-> Place(0 - 33, 151, 1000), to |-> Place(0 - 33, 151, Now)],
       [start |-> 2000, from |-> Place(47, 0 - 122, 2000), to |-> Place(45, 0 - 123, 2500)] >>

FactsOf(kind) == IF kind = "ios" THEN GoodIOSFacts ELSE GoodAndroidFacts

\* what the factory returns for the k-th well-formed entry alone in a document
Alone(kind, k) ==
    FactoryParse(IF kind = "ios" THEN IOSDocument(<<k>>) ELSE AndroidDocument(<<k>>)).data

\* the place of position i in the ascending order of the picked entries
Rank(kind, pick, i) ==
    Cardinality({j \in DOMAIN pick :
                    \/ FactsOf(kind)[pick[j]].start < FactsOf(kind)[pick[i]].start
                    \/ FactsOf(kind)[pick[j]].start = FactsOf(kind)[pick[i]].start /\ j < i}) + 1

\* the picked entries by ascending start time
AscendingOrder(kind, pick) ==
    [r \in DOMAIN pick |-> pick[CHOOSE i \in DOMAIN pick : Rank(kind, pick, i) = r]]

RECURSIVE Flatten(_, _)
\* the first n sequences of seqs, concatenated
Flatten(seqs, n) == IF n = 0 THEN <<>> ELSE Flatten(seqs, n - 1) \o seqs[n]

PointValues(points) == [i \in DOMAIN points |-> PointValue(points[i])]

PathValues(paths) == [i \in DOMAIN paths |-> PathValue(paths[i])]

SamePlace(v, w) == v.lat = w.lat /\ v.lon = w.lon

\* the paths that join two different places
JoiningPaths(values) == SelectSeq(values, LAMBDA v : ~SamePlace(v.a, v.b))

\* the gap path between two consecutive entries whose locations differ
GapPath(kind, prev, curr) ==
    IF SamePlace(FactsOf(kind)[prev].to, FactsOf(kind)[curr].from) THEN <<>>
    ELSE << [a |-> FactsOf(kind)[prev].to, b |-> FactsOf(kind)[curr].from] >>

\* the parse of a document of well-formed entries
WellFormedParse ==
    /\ last.op = "parse"
    /\ last.kind \in {"ios", "android"}
    /\ Len(last.pick) > 0
    /\ \A i \in DOMAIN last.pick : last.pick[i] <= Len(FactsOf(last.kind))

\* C25: for a document of well-formed entries in any order, the points are
\* the entries' points taken by ascending start time, an entry without a
\* start time first, and the paths that join two different places are, entry
\* after entry in that order, the entry's own paths followed by one gap path
\* from the previous entry's end location to the entry's start location where
\* the two differ.
C25_SortedWithGapPaths ==
    WellFormedParse =>
        LET order == AscendingOrder(last.kind, last.pick)
            own == [r \in DOMAIN order |-> Alone(last.kind, order[r])]
        IN  /\ ~last.thrown
            /\ PointValues(last.result.points) =
                  Flatten([r \in DOMAIN order |-> PointValues(own[r].points)], Len(order))
            /\ JoiningPaths(PathValues(last.result.paths)) =
                  Flatten([r \in DOMAIN order |->
                             JoiningPaths(PathValues(own[r].paths)) \o
                             (IF r = 1 THEN <<>>
                              ELSE GapPath(last.kind, order[r - 1], order[r]))],
                          Len(order))

\* the activity of 2000 before the path of 500 in the document, and a visit
\* without a start time before the visit of 1000: the later entry comes
\* second in the result and the gap path leads to it
C25_Witness ==
    /\ WellFormedParse
    /\ last.kind = "ios"
    /\ last.pick \in {<<2, 3>>, <<1, 4>>}
    /\ Len(last.result.paths) >= 2
    /\ PathValue(last.result.paths[Len(last.result.paths)]) \in
          {[a |-> Place(11, 21, Now), b |-> Place(47, 0 - 122, 2000)],
           [a |-> Place(30, 40, 700), b |-> Place(47, 0 - 122, 1000)]}

(***************************************************************************)
(* C26                                                                     *)
(***************************************************************************)
\* the parse of a document whose one entry is a dense path of n coordinates
DensePathParse(n) ==
    /\ last.op = "parse"
    /\ last.kind \in {"iosPath", "androidPath"}
    /\ last.pick = <<n>>

\* C26: an entry with a dense timelinePath of n coordinates gives, in both
\* formats, n points at the coordinates in path order and n - 1 paths, the
\* j-th from the j-th coordinate to the next.
C26_DensePathPointsAndLegs ==
    \A n \in 1..MaxPathPoints :
        DensePathParse(n) =>
            /\ ~last.thrown
            /\ Len(last.result.points) = n
            /\ \A k \in 1..n : SamePlace(last.result.points[k], PathCoord(k))
            /\ Len(last.result.paths) = n - 1
            /\ \A j \in 1..(n - 1) :
                  /\ j <= Len(last.result.paths)
                  /\ SamePlace(last.result.paths[j].a, PathCoord(j))
                  /\ SamePlace(last.result.paths[j].b, PathCoord(j + 1))

\* the path of five coordinates, the last two the same place, in the Android
\* format: five points and four paths
C26_Witness ==
    /\ DensePathParse(5)
    /\ last.kind = "androidPath"
    /\ SamePlace(PathCoord(4), PathCoord(5))
    /\ Len(last.result.points) = 5
    /\ Len(last.result.paths) = 4

(***************************************************************************)
(* C27                                                                     *)
(***************************************************************************)
\* C27: both endpoints of every path of a parsed TimelineData are members, as
\* objects, of the TimelineData's point set.
C27_EndpointsAreOwnPoints ==
    (last.op = "parse" /\ ~last.thrown) =>
        \A j \in DOMAIN last.result.paths :
            /\ last.result.paths[j].a \in Range(last.result.points)
            /\ last.result.paths[j].b \in Range(last.result.points)

(***************************************************************************)
(* Calls of getSegmentIndex                                                *)
(***************************************************************************)
\* latitudes and longitudes in whole degrees: the grid lines, which lie every
\* 10 degrees, their neighbours, the limits, values beyond them, and NaN
GridLats == {x \in (0 - 91)..91 : x % 10 \in {0, 1, 9}} \cup {NaN}

GridLons == {x \in (0 - 181)..181 : x % 10 \in {0, 1, 9}} \cup {NaN}

\* one call of getSegmentIndex; the function keeps no state, so every call is
\* made in the initial state
SegmentIndex(lat, lon) ==
    /\ last.op # "getSegmentIndex"
    /\ last' = [op |-> "getSegmentIndex", lat |-> lat, lon |-> lon,
                index |-> GetSegmentIndex(lat, lon)]
    /\ UNCHANGED <<map, stored, hookFiles, call>>

GridNext == \E lat \in GridLats : \E lon \in GridLons : SegmentIndex(lat, lon)

GridSpec == Init /\ [][GridNext]_vars

(***************************************************************************)
(* C28                                                                     *)
(***************************************************************************)
Clamp(x, lo, hi) == IF x < lo THEN lo ELSE IF x > hi THEN hi ELSE x

AtRest ==
    /\ call.phase = "session"
    /\ call.init = "loaded"
    /\ ~call.overlap
    /\ call.up.phase = "idle"
    /\ call.rm.phase = "idle"

\* C29: when no upload and no removal is in flight, the file list of the hook
\* holds the ids of the files of the service's map, in the same order, also
\* after calls whose saveMap failed.
C29_HookListsMapFiles ==
    AtRest => FileIds([files |-> hookFiles]) = FileIds(map)

(***************************************************************************)
(* C30                                                                     *)
(***************************************************************************)
\* C30: when the uploadFiles and remove calls of a session have all
\* completed, saveMap was called and no saveMap call failed, the stored
\* record is toJson() of the service's map.
C30_LastWriteHoldsEveryMutation ==
    (AtRest /\ call.saved /\ ~call.saveFailed) =>
        /\ stored.present
        /\ ~ToJson(map).thrown
        /\ stored.data = ToJson(map).json

====
